---- MODULE Spec2Model ----
(***************************************************************************)
(* The client pages of the playground (RAG retriever page, knowledge-base  *)
(* page, the two talent-graph pages, the system-prompt page) as state      *)
(* machines over their React state, together with the index builder /      *)
(* retriever and the graph store they talk to.                             *)
(***************************************************************************)
EXTENDS Integers, Sequences, FiniteSets, TLC

(***************************************************************************)
(* JavaScript values.  Every value is a record tagged with its type, so    *)
(* that values of different types can be compared.  A string is either     *)
(* plain text (field s), JSON text (field json: the value it encodes) or a *)
(* template literal (fields fmt, args).                                    *)
(***************************************************************************)
Undefined == [t |-> "undefined"]
Null == [t |-> "null"]
Str(s) == [t |-> "string", s |-> s]
Num(n) == [t |-> "number", n |-> n]
Obj(f) == [t |-> "object", o |-> f]
Tpl(fmt, args) == [t |-> "string", fmt |-> fmt, args |-> args]
EmptyObj == [x \in {} |-> Undefined]

\* An object literal's field; a field whose value is undefined is left out
Fld(key, v) == IF v = Undefined THEN EmptyObj ELSE key :> v

\* How an expression completes: with a value, or by throwing an Error whose
\* message is v
Returned(v) == [threw |-> FALSE, v |-> v]
Thrown(message) == [threw |-> TRUE, v |-> message]
SyntaxError == Str("SyntaxError")
TypeError == Str("TypeError")

\* JSON.stringify(v): the JSON text of v (a string, never v itself)
JSONstringify(v) == [t |-> "string", json |-> v]

\* JSON.parse(x): decodes one level of JSON text; null and numbers are coerced
\* to their own text; anything else is a SyntaxError
JSONparse(x) ==
    IF x.t = "string" /\ "json" \in DOMAIN x THEN Returned(x.json)
    ELSE IF x.t \in {"null", "number"} THEN Returned(x)
    ELSE Thrown(SyntaxError)

Nullish(x) == x.t \in {"undefined", "null"}

\* x.key for a non-nullish x
Get(x, key) == IF x.t = "object" /\ key \in DOMAIN x.o THEN x.o[key] ELSE Undefined

\* x?.key
OptGet(x, key) == IF Nullish(x) THEN Undefined ELSE Get(x, key)

Falsy(x) ==
    \/ Nullish(x)
    \/ x = Str("")
    \/ x = Num(0)
    \/ x.t = "NaN"

\* a || b
OrElse(a, b) == IF Falsy(a) THEN b ELSE a

NaN == [t |-> "NaN"]

\* the text checked as it was typed
TrimNothing(s) == s

\* s.trim() on the input texts of the model: whitespace-only texts trim to ""
Trim(s) == IF s \in {" ", "  "} THEN "" ELSE s

\* What an awaited client call settles with: it rejects, or resolves to {data}
NetworkError == Str("NetworkError")
Rejected == [threw |-> TRUE, data |-> Undefined]
Resolved(d) == [threw |-> FALSE, data |-> d]

StatusCodes == {200, 500}

VARIABLES
    mounted,        \* the page component that is mounted
    retriever,      \* state of EmployeeInformationRetriever (RAG page)
    knowledgeBase,  \* state of EmployeeInformationRetriever (knowledge-base page)
    talentGraph,    \* state of EmployeeTalentGraph (text -> graph -> query -> Neptune)
    talentGraphV1,  \* state of EmployeeTalentGraph (text -> graph only)
    promptSelector, \* state of SystemPromptSelector
    objectStore,    \* the storage bucket: what each key of faiss_indexes/ holds
    builder,        \* the Index Builder's position in a build
    searcher,       \* the Retriever's position in a search
    retrieval,      \* a build followed by searches, with no other caller
    neptune         \* the graph store and the script submitted to it

vars == <<mounted, retriever, knowledgeBase, talentGraph, talentGraphV1, promptSelector,
          objectStore, builder, searcher, retrieval, neptune>>

backEnd == <<objectStore, builder, searcher, retrieval, neptune>>
othersThanRetriever ==
    <<mounted, knowledgeBase, talentGraph, talentGraphV1, promptSelector, backEnd>>
othersThanKnowledgeBase ==
    <<mounted, retriever, talentGraph, talentGraphV1, promptSelector, backEnd>>
othersThanTalentGraph ==
    <<mounted, retriever, knowledgeBase, talentGraphV1, promptSelector, backEnd>>
othersThanTalentGraphV1 ==
    <<mounted, retriever, knowledgeBase, talentGraph, promptSelector, backEnd>>
othersThanPromptSelector ==
    <<mounted, retriever, knowledgeBase, talentGraph, talentGraphV1, backEnd>>
pages == <<mounted, retriever, knowledgeBase, talentGraph, talentGraphV1, promptSelector>>

(***************************************************************************)
(* EmployeeInformationRetriever (RAG page)                                 *)
(***************************************************************************)
DefaultK == 5

s3_bucket == "bucket"
s3_folder_prefix == "datasets/"

RetrieverInit ==
    [ createFaissIndexResponseMessage |-> Str(""),
      createFaissIndexResponseStatusCode |-> Num(0),
      isCreatingFaissIndex |-> FALSE,
      query |-> "",
      k |-> Num(DefaultK),
      ragResponse |-> Str(""),
      isProcessingRag |-> FALSE,
      ragError |-> Str(""),
      retrievedDocs |-> Obj(EmptyObj),
      faissCalls |-> <<>>,
      ragCalls |-> <<>> ]

RemoveAt(s, i) == SubSeq(s, 1, i - 1) \o SubSeq(s, i + 1, Len(s))

\* parseInt(text) on the texts typed into the k field
ParseInt(text) ==
    CASE text = "0" -> Num(0)
      [] text = "3" -> Num(3)
      [] text = "-2" -> Num(0 - 2)
      [] OTHER -> NaN

\* Query field onChange
SetQuery(text) ==
    /\ mounted = "retriever"
    /\ UNCHANGED othersThanRetriever
    /\ retriever' = [retriever EXCEPT !.query = text]

\* k field onChange: setK(parseInt(e.target.value) || 5)
SetK(text) ==
    /\ mounted = "retriever"
    /\ UNCHANGED othersThanRetriever
    /\ retriever' = [retriever EXCEPT !.k = OrElse(ParseInt(text), Num(DefaultK))]

\* What createFaissIndex can settle with: the envelope carries its message at
\* the top level (as the handler reads it) and/or JSON-encoded in body
FaissResponses ==
    LET messages == {"built", "failed"}
        envelopes ==
            { Obj(Fld("statusCode", Num(c)) @@ Fld("message", m) @@ Fld("body", b)) :
                c \in StatusCodes,
                m \in {Undefined} \cup {Str(x) : x \in messages},
                b \in {Undefined} \cup {JSONstringify(Obj("message" :> Str(x))) : x \in messages} }
    IN  {Rejected, Resolved(Null)} \cup {Resolved(JSONstringify(e)) : e \in envelopes}

\* Create FAISS Index onClick, up to the await
ClickCreateFaissIndex ==
    /\ mounted = "retriever"
    /\ UNCHANGED othersThanRetriever
    /\ ~retriever.isCreatingFaissIndex
    /\ retriever' = [retriever EXCEPT
            !.isCreatingFaissIndex = TRUE,
            !.createFaissIndexResponseStatusCode = Num(0),
            !.createFaissIndexResponseMessage = Str(""),
            !.faissCalls = Append(@, [s3_bucket |-> s3_bucket, s3_key |-> s3_folder_prefix])]

\* Create FAISS Index onClick, try/catch after the await
CreateFaissIndexContinuation(resp, cur) ==
    LET failed == [cur EXCEPT
                    !.createFaissIndexResponseStatusCode = Num(500),
                    !.createFaissIndexResponseMessage = Str("Failed to create FAISS index.")]
    IN  IF resp.threw THEN failed
        ELSE LET data == JSONparse(resp.data)
             IN  IF data.threw \/ Nullish(data.v) THEN failed
                 ELSE [cur EXCEPT
                        !.createFaissIndexResponseStatusCode = Get(data.v, "statusCode"),
                        !.createFaissIndexResponseMessage = Get(data.v, "message")]

\* Create FAISS Index onClick, from the await to the end of finally
CreateFaissIndexSettle(i, resp) ==
    /\ mounted = "retriever"
    /\ UNCHANGED othersThanRetriever
    /\ i \in 1..Len(retriever.faissCalls)
    /\ retriever' = [CreateFaissIndexContinuation(resp, retriever) EXCEPT
            !.isCreatingFaissIndex = FALSE,
            !.faissCalls = RemoveAt(@, i)]

\* What ragFaissIndex can settle with: {statusCode, body} with body absent or
\* the JSON text of {status, message, answer, retrieved_docs}, each optional
RagResponses ==
    LET doc == Obj("doc_key" :> Str("a.txt") @@ "doc_text" :> Str("apple"))
        payloads ==
            { [answer |-> Undefined, retrieved_docs |-> Undefined],
              [answer |-> Str(""), retrieved_docs |-> Obj(EmptyObj)],
              [answer |-> Str("a1"), retrieved_docs |-> Obj(EmptyObj)],
              [answer |-> Str("a1"), retrieved_docs |-> Obj("0" :> doc)] }
        bodies ==
            { Obj(Fld("status", st) @@ Fld("message", m) @@ Fld("answer", p.answer)
                    @@ Fld("retrieved_docs", p.retrieved_docs)) :
                st \in {Undefined, Str("success"), Str("error")},
                m \in {Undefined, Str("m1")},
                p \in payloads }
        envelopes ==
            { Obj(Fld("statusCode", Num(c)) @@ Fld("body", b)) :
                c \in StatusCodes,
                b \in {Undefined} \cup {JSONstringify(x) : x \in bodies} }
    IN  {Rejected, Resolved(Null)} \cup {Resolved(JSONstringify(e)) : e \in envelopes}

\* Get Answer onClick, up to the await
ClickGetAnswer ==
    /\ mounted = "retriever"
    /\ UNCHANGED othersThanRetriever
    /\ ~retriever.isProcessingRag
    /\ IF Trim(retriever.query) = ""
       THEN retriever' = [retriever EXCEPT !.ragError = Str("Query cannot be empty.")]
       ELSE retriever' = [retriever EXCEPT
                !.isProcessingRag = TRUE,
                !.ragResponse = Str(""),
                !.ragError = Str(""),
                !.ragCalls = Append(@, [s3_bucket |-> s3_bucket,
                                        query |-> retriever.query,
                                        k |-> retriever.k])]

\* the status check left out
NotOkNever(statusCode) == FALSE

\* if (statusCode !== 200)
NotOk(statusCode) == statusCode # Num(200)

\* Get Answer onClick, try/catch after the await
GetAnswerContinuation(resp, cur) ==
    LET failed == [cur EXCEPT !.ragError = Str("Failed to generate an answer (client error).")]
    IN  IF resp.threw THEN failed
        ELSE LET data == JSONparse(resp.data)
             IN  IF data.threw \/ Nullish(data.v) THEN failed
                 ELSE LET statusCode == Get(data.v, "statusCode")
                          body == Get(data.v, "body")
                      IN  IF Falsy(body)
                          THEN [cur EXCEPT !.ragError = Str("No response body found.")]
                          ELSE LET parsed == JSONparse(body)
                                   parsedBody == parsed.v
                               IN  IF parsed.threw THEN failed
                                   ELSE IF NotOk(statusCode)
                                   THEN [cur EXCEPT !.ragError =
                                            Tpl("Error ${statusCode}: ${maybeMessage}",
                                                <<statusCode,
                                                  OrElse(OptGet(parsedBody, "message"),
                                                         Str("Request failed."))>>)]
                                   ELSE IF OptGet(parsedBody, "status") = Str("error")
                                   THEN [cur EXCEPT !.ragError =
                                            OrElse(OptGet(parsedBody, "message"),
                                                   Str("An unknown error occurred."))]
                                   ELSE [cur EXCEPT
                                            !.ragResponse = OrElse(OptGet(parsedBody, "answer"), Str("")),
                                            !.retrievedDocs = OptGet(parsedBody, "retrieved_docs")]

\* the call issued again when it was rejected
GetAnswerSettleRetrying(i, resp) ==
    /\ mounted = "retriever"
    /\ UNCHANGED othersThanRetriever
    /\ i \in 1..Len(retriever.ragCalls)
    /\ retriever' = [GetAnswerContinuation(resp, retriever) EXCEPT
            !.isProcessingRag = FALSE,
            !.ragCalls = IF resp.threw THEN Append(RemoveAt(@, i), @[i]) ELSE RemoveAt(@, i)]

\* Get Answer onClick, from the await to the end of finally
GetAnswerSettle(i, resp) ==
    /\ mounted = "retriever"
    /\ UNCHANGED othersThanRetriever
    /\ i \in 1..Len(retriever.ragCalls)
    /\ retriever' = [GetAnswerContinuation(resp, retriever) EXCEPT
            !.isProcessingRag = FALSE,
            !.ragCalls = RemoveAt(@, i)]

(***************************************************************************)
(* EmployeeInformationRetriever (knowledge-base page)                      *)
(***************************************************************************)
MaxKbCalls == 2

s3_index_key == "faiss_indexes/datasets/.faiss"
metadata_key == "faiss_indexes/datasets/_metadata.json"

KnowledgeBaseInit ==
    [ collectionName |-> "default-collection",
      collectionDescription |-> "Default description for the collection.",
      knowledgeBaseName |-> "default-knowledge-base",
      description |-> "This is the default knowledge base description.",
      embeddingModelArn |-> "arn:aws:bedrock:ap-northeast-1:471112852670:cohere.embed-multilingual-v3",
      vectorIndexName |-> "DefaultVectorIndex",
      roleName |-> "DefaultRoleName",
      statusMessage |-> Str(""),
      calls |-> <<>> ]

\* What createKnowledgeBase / deleteKnowledgeBase can settle with
KbResponses ==
    LET envelopes ==
            { Obj(Fld("statusCode", Num(c)) @@ Fld("body", b)) :
                c \in StatusCodes,
                b \in {Undefined, JSONstringify(Obj(EmptyObj)),
                       JSONstringify(Obj("message" :> Str("kb1")))} }
    IN  {Rejected, Resolved(Null)} \cup {Resolved(JSONstringify(e)) : e \in envelopes}

\* createKnowledgeBase / deleteKnowledgeBase, up to the await (the buttons are
\* never disabled)
ClickKnowledgeBase(op) ==
    /\ mounted = "knowledgeBase"
    /\ UNCHANGED othersThanKnowledgeBase
    /\ Len(knowledgeBase.calls) < MaxKbCalls
    /\ knowledgeBase' = [knowledgeBase EXCEPT
            !.statusMessage = IF op = "create" THEN Str("Creating Knowledge Base...")
                              ELSE Str("Deleting Knowledge Base..."),
            !.calls = Append(@, IF op = "create"
                                THEN [op |-> op,
                                      collectionName |-> knowledgeBase.collectionName,
                                      collectionDescription |-> knowledgeBase.collectionDescription,
                                      knowledgeBaseName |-> knowledgeBase.knowledgeBaseName,
                                      description |-> knowledgeBase.description,
                                      embeddingModelArn |-> knowledgeBase.embeddingModelArn,
                                      vectorIndexName |-> knowledgeBase.vectorIndexName]
                                ELSE [op |-> op,
                                      collectionName |-> knowledgeBase.collectionName,
                                      knowledgeBaseName |-> knowledgeBase.knowledgeBaseName,
                                      roleName |-> knowledgeBase.roleName])]

\* if (statusCode == 200)
KbOk(statusCode) == statusCode = Num(200)

\* createKnowledgeBase / deleteKnowledgeBase, try/catch after the await: the
\* status message shown
KnowledgeBaseContinuation(op, resp) ==
    LET done == IF op = "create" THEN "created" ELSE "deleted"
        doing == IF op = "create" THEN "creating" ELSE "deleting"
        caught(error) == Tpl("Error " \o doing \o " knowledge base: ${error}", <<error>>)
    IN  IF resp.threw THEN caught(NetworkError)
        ELSE LET data == JSONparse(resp.data)
             IN  IF data.threw THEN caught(data.v)
                 ELSE IF Nullish(data.v) THEN caught(TypeError)
                 ELSE LET body == Get(data.v, "body")
                          statusCode == Get(data.v, "statusCode")
                          parsed == JSONparse(body)
                      IN  IF parsed.threw THEN caught(parsed.v)
                          ELSE IF Nullish(parsed.v) THEN caught(TypeError)
                          ELSE LET message == Get(parsed.v, "message")
                               IN  IF KbOk(statusCode)
                                   THEN Tpl("Knowledge Base " \o done
                                              \o " successfully.\nstatusCode: ${statusCode}\nMessage: ${message}",
                                            <<statusCode, message>>)
                                   ELSE Tpl("Error " \o doing \o " knowledge base: ${message}",
                                            <<message>>)

\* createKnowledgeBase / deleteKnowledgeBase, from the await to the end
KnowledgeBaseSettle(i, resp) ==
    /\ mounted = "knowledgeBase"
    /\ UNCHANGED othersThanKnowledgeBase
    /\ i \in 1..Len(knowledgeBase.calls)
    /\ knowledgeBase' = [knowledgeBase EXCEPT
            !.statusMessage = KnowledgeBaseContinuation(knowledgeBase.calls[i].op, resp),
            !.calls = RemoveAt(@, i)]

(***************************************************************************)
(* Graphs and graph scripts                                                *)
(***************************************************************************)
Arr(seq) == [t |-> "array", a |-> seq]
NoProperties == [x \in {} |-> ""]

Range(seq) == {seq[i] : i \in 1..Len(seq)}

\* A Graph as the JavaScript object the pages hold
GraphValue(g) == Obj("nodes" :> Arr(g.nodes) @@ "edges" :> Arr(g.edges))
IsGraphValue(v) ==
    /\ v.t = "object"
    /\ {"nodes", "edges"} \subseteq DOMAIN v.o
    /\ v.o["nodes"].t = "array"
    /\ v.o["edges"].t = "array"
GraphOf(v) == [nodes |-> v.o["nodes"].a, edges |-> v.o["edges"].a]

Employee(id, name, position, specialization) ==
    [ labels |-> <<"Employee">>,
      properties |-> [id |-> id, name |-> name, position |-> position,
                      specialization |-> specialization] ]
Company(name) == [labels |-> <<"Company">>, properties |-> [name |-> name]]
Person(name) == [labels |-> <<"Person">>, properties |-> [name |-> name]]
EmployeeRef(id) == [labels |-> <<"Employee">>, properties |-> [id |-> id]]
Edge(source, target, type) ==
    [source |-> source, target |-> target, type |-> type, properties |-> NoProperties]

\* graphDefault (the Japanese texts are written as name1.., position1..,
\* specialization1..)
DefaultGraph ==
    [ nodes |-> << Employee("1", "name1", "position1", "specialization1"),
                   Employee("2", "name2", "position2", "specialization2"),
                   Employee("3", "name3", "position3", "specialization3"),
                   Employee("4", "name4", "position4", "specialization4"),
                   Employee("5", "name5", "position5", "specialization5"),
                   Company("NextVision Consulting") >>,
      edges |-> << Edge(EmployeeRef("1"), Company("NextVision Consulting"), "FOUNDED"),
                   Edge(EmployeeRef("2"), Company("NextVision Consulting"), "FOUNDING_MEMBER"),
                   Edge(EmployeeRef("3"), Company("NextVision Consulting"), "WORKS_FOR"),
                   Edge(EmployeeRef("4"), Company("NextVision Consulting"), "WORKS_FOR"),
                   Edge(EmployeeRef("5"), Company("NextVision Consulting"), "WORKS_FOR") >> ]
graphDefault == JSONstringify(GraphValue(DefaultGraph))

\* A node reference resolves to a node with the same labels that carries the
\* reference's properties
Resolves(ref, node) ==
    /\ ref.labels = node.labels
    /\ \A key \in DOMAIN ref.properties :
            key \in DOMAIN node.properties /\ node.properties[key] = ref.properties[key]

\* Graph Extractor's structural validation: every edge's source and target
\* resolves to a node of the same payload
WellFormed(g) ==
    \A e \in Range(g.edges) :
        /\ \E n \in Range(g.nodes) : Resolves(e.source, n)
        /\ \E n \in Range(g.nodes) : Resolves(e.target, n)

\* The statements of an openCypher script
Constraint(label, key) == [op |-> "constraint", label |-> label, key |-> key]
MergeNode(label, key, value, set) ==
    [op |-> "mergeNode", label |-> label, key |-> key, value |-> value, set |-> set]
MatchMergeEdge(srcLabel, srcKey, srcValue, dstLabel, dstKey, dstValue, type) ==
    [ op |-> "matchMergeEdge", type |-> type,
      srcLabel |-> srcLabel, srcKey |-> srcKey, srcValue |-> srcValue,
      dstLabel |-> dstLabel, dstKey |-> dstKey, dstValue |-> dstValue ]

\* A script as the JavaScript string the pages hold
Script(statements) == [t |-> "string", script |-> statements]

EmployeeSet(n) == [name |-> "name" \o n, position |-> "position" \o n,
                   specialization |-> "specialization" \o n]
EmployeeEdge(id, type) ==
    MatchMergeEdge("Employee", "id", id, "Company", "name", "NextVision Consulting", type)

\* openCypherQueryDefault with the first relationship created, not merged
openCypherQueryDefaultCreatingEdge ==
    Script(<< Constraint("Employee", "id"),
              Constraint("Company", "name"),
              MergeNode("Employee", "id", "1", EmployeeSet("1")),
              MergeNode("Employee", "id", "2", EmployeeSet("2")),
              MergeNode("Employee", "id", "3", EmployeeSet("3")),
              MergeNode("Employee", "id", "4", EmployeeSet("4")),
              MergeNode("Employee", "id", "5", EmployeeSet("5")),
              MergeNode("Company", "name", "NextVision Consulting", NoProperties),
              [EmployeeEdge("1", "FOUNDED") EXCEPT !.op = "matchCreateEdge"],
              EmployeeEdge("2", "FOUNDING_MEMBER"),
              EmployeeEdge("3", "WORKS_FOR"),
              EmployeeEdge("4", "WORKS_FOR"),
              EmployeeEdge("5", "WORKS_FOR") >>)

\* openCypherQueryDefault with the company merged after the relationships
openCypherQueryDefaultCompanyLast ==
    Script(<< Constraint("Employee", "id"),
              Constraint("Company", "name"),
              MergeNode("Employee", "id", "1", EmployeeSet("1")),
              MergeNode("Employee", "id", "2", EmployeeSet("2")),
              MergeNode("Employee", "id", "3", EmployeeSet("3")),
              MergeNode("Employee", "id", "4", EmployeeSet("4")),
              MergeNode("Employee", "id", "5", EmployeeSet("5")),
              EmployeeEdge("1", "FOUNDED"),
              EmployeeEdge("2", "FOUNDING_MEMBER"),
              EmployeeEdge("3", "WORKS_FOR"),
              EmployeeEdge("4", "WORKS_FOR"),
              EmployeeEdge("5", "WORKS_FOR"),
              MergeNode("Company", "name", "NextVision Consulting", NoProperties) >>)

openCypherQueryDefault ==
    Script(<< Constraint("Employee", "id"),
              Constraint("Company", "name"),
              MergeNode("Employee", "id", "1", EmployeeSet("1")),
              MergeNode("Employee", "id", "2", EmployeeSet("2")),
              MergeNode("Employee", "id", "3", EmployeeSet("3")),
              MergeNode("Employee", "id", "4", EmployeeSet("4")),
              MergeNode("Employee", "id", "5", EmployeeSet("5")),
              MergeNode("Company", "name", "NextVision Consulting", NoProperties),
              EmployeeEdge("1", "FOUNDED"),
              EmployeeEdge("2", "FOUNDING_MEMBER"),
              EmployeeEdge("3", "WORKS_FOR"),
              EmployeeEdge("4", "WORKS_FOR"),
              EmployeeEdge("5", "WORKS_FOR") >>)

\* Query Synthesizer: the script the generation service is instructed to write
\* for a Graph: a uniqueness constraint per (label, identity property) first,
\* then a create-if-absent statement per node, then one per edge
IdentityKey(node) == IF "id" \in DOMAIN node.properties THEN "id" ELSE "name"
Label(node) == node.labels[1]
RECURSIVE Dedup(_)
Dedup(seq) ==
    IF seq = <<>> THEN <<>>
    ELSE LET front == Dedup(SubSeq(seq, 1, Len(seq) - 1))
             last == seq[Len(seq)]
         IN  IF last \in Range(front) THEN front ELSE Append(front, last)
NodeStatement(n) ==
    MergeNode(Label(n), IdentityKey(n), n.properties[IdentityKey(n)],
              [key \in DOMAIN n.properties \ {IdentityKey(n)} |-> n.properties[key]])
EdgeStatement(e) ==
    MatchMergeEdge(Label(e.source), IdentityKey(e.source), e.source.properties[IdentityKey(e.source)],
                   Label(e.target), IdentityKey(e.target), e.target.properties[IdentityKey(e.target)],
                   e.type)
Synthesize(g) ==
    Dedup([i \in 1..Len(g.nodes) |-> Constraint(Label(g.nodes[i]), IdentityKey(g.nodes[i]))])
    \o [i \in 1..Len(g.nodes) |-> NodeStatement(g.nodes[i])]
    \o [i \in 1..Len(g.edges) |-> EdgeStatement(g.edges[i])]

(***************************************************************************)
(* The graph store that executes a script (openCypher semantics)           *)
(***************************************************************************)

Matches(node, label, key, value) ==
    /\ node.label = label
    /\ key \in DOMAIN node.properties
    /\ node.properties[key] = value

\* MERGE (n:label {key: value}) SET n.p = v, ...
ExecMergeNode(store, st) ==
    IF \E i \in 1..Len(store.nodes) : Matches(store.nodes[i], st.label, st.key, st.value)
    THEN [store EXCEPT !.nodes =
            [i \in 1..Len(store.nodes) |->
                IF Matches(store.nodes[i], st.label, st.key, st.value)
                THEN [store.nodes[i] EXCEPT !.properties = st.set @@ @]
                ELSE store.nodes[i]]]
    ELSE [store EXCEPT !.nodes =
            Append(@, [label |-> st.label, properties |-> st.set @@ (st.key :> st.value)])]

\* The (source, target) pairs a MATCH (a), (b) finds, in store order
RECURSIVE SeqOfPairs(_, _)
SeqOfPairs(pairs, n) ==
    IF pairs = {} THEN <<>>
    ELSE LET least == CHOOSE p \in pairs :
                        \A q \in pairs : p[1] * n + p[2] <= q[1] * n + q[2]
         IN  <<least>> \o SeqOfPairs(pairs \ {least}, n)
Matched(store, st) ==
    { <<i, j>> \in (1..Len(store.nodes)) \X (1..Len(store.nodes)) :
        /\ Matches(store.nodes[i], st.srcLabel, st.srcKey, st.srcValue)
        /\ Matches(store.nodes[j], st.dstLabel, st.dstKey, st.dstValue) }

\* MATCH (a), (b) MERGE (a)-[:type]->(b): an edge per matched pair that has
\* none of this type yet; nothing when an endpoint is missing
ExecMatchMergeEdge(store, st) ==
    LET missing == { p \in Matched(store, st) :
                        [src |-> p[1], dst |-> p[2], type |-> st.type] \notin Range(store.edges) }
        new == SeqOfPairs(missing, Len(store.nodes) + 1)
    IN  [store EXCEPT !.edges =
            @ \o [i \in 1..Len(new) |-> [src |-> new[i][1], dst |-> new[i][2], type |-> st.type]]]

\* MATCH (a), (b) CREATE (a)-[:type]->(b): a new edge per matched pair
ExecMatchCreateEdge(store, st) ==
    LET new == SeqOfPairs(Matched(store, st), Len(store.nodes) + 1)
    IN  [store EXCEPT !.edges =
            @ \o [i \in 1..Len(new) |-> [src |-> new[i][1], dst |-> new[i][2], type |-> st.type]]]

ExecStatement(store, st) ==
    CASE st.op = "constraint" ->
            [store EXCEPT !.constraints = @ \cup {<<st.label, st.key>>}]
      [] st.op = "mergeNode" -> ExecMergeNode(store, st)
      [] st.op = "matchMergeEdge" -> ExecMatchMergeEdge(store, st)
      [] st.op = "matchCreateEdge" -> ExecMatchCreateEdge(store, st)

\* The statements of a script, executed in order
RECURSIVE ExecStatements(_, _)
ExecStatements(store, statements) ==
    IF statements = <<>> THEN store
    ELSE ExecStatements(ExecStatement(store, Head(statements)), Tail(statements))

(***************************************************************************)
(* The text-to-graph back end the graph pages call                         *)
(***************************************************************************)
Alice == Person("Alice")
Acme == Company("Acme")
AliceWorksForAcme == Edge(Person("Alice"), Company("Acme"), "WORKS_FOR")

\* What the generation service can return for an extraction
ExtractPayloads ==
    { [nodes |-> <<Alice, Acme>>, edges |-> <<AliceWorksForAcme>>],
      [nodes |-> <<Alice, Acme>>, edges |-> <<>>],
      [nodes |-> <<Alice>>, edges |-> <<AliceWorksForAcme>>],
      [nodes |-> <<Acme>>, edges |-> <<AliceWorksForAcme>>] }

Envelope(statusCode, body) == Obj(Fld("statusCode", Num(statusCode)) @@ Fld("body", body))
ErrorBody(kind) == JSONstringify(Obj("message" :> Str(kind)))

\* the payload is returned without validation
ExtractGraphUnvalidated(payload) == Envelope(200, JSONstringify(GraphValue(payload)))

\* Graph Extractor: the payload is validated and returned, or rejected with
\* MalformedGraphError
ExtractGraph(payload) ==
    IF WellFormed(payload)
    THEN Envelope(200, JSONstringify(GraphValue(payload)))
    ELSE Envelope(500, ErrorBody("MalformedGraphError"))
ExtractEnvelopes ==
    {ExtractGraph(p) : p \in ExtractPayloads} \cup {Envelope(500, ErrorBody("GenerationServiceError"))}

\* Query Synthesizer: the script for the serialized graph it was sent
SynthesizeQuery(nodeRelationJson) ==
    LET v == JSONparse(nodeRelationJson).v
    IN  IF IsGraphValue(v) THEN Script(Synthesize(GraphOf(v))) ELSE Script(<<>>)

(***************************************************************************)
(* EmployeeTalentGraph (text -> graph -> openCypher query -> Neptune)      *)
(***************************************************************************)
graphDescriptionDefault == "graphDescriptionDefault"
GraphDescriptionInputs == {"", " ", "Alice works for Acme."}

TalentGraphInit ==
    [ graphDescription |-> graphDescriptionDefault,
      graph |-> JSONparse(graphDefault).v,
      openCypherQuery |-> openCypherQueryDefault,
      neptuneEndpoint |-> "",
      neptuneQueryResult |-> Str(""),
      isLoading |-> FALSE,
      error |-> Null,
      calls |-> <<>> ]

\* openCypherQuery.trim() is empty
BlankScript(v) == v.t = "string" /\ "s" \in DOMAIN v /\ Trim(v.s) = ""

\* The thrown Error's message shown by a catch block
Failure(prefix, body) == Tpl(prefix \o ": ${body || \"Unknown error\"}", <<OrElse(body, Str("Unknown error"))>>)

\* TextAreaField onChange (the field is disabled while loading)
SetGraphDescription(text) ==
    /\ mounted = "talentGraph"
    /\ UNCHANGED othersThanTalentGraph
    /\ ~talentGraph.isLoading
    /\ talentGraph' = [talentGraph EXCEPT !.graphDescription = text]

\* Neptune Endpoint onChange
SetNeptuneEndpoint(text) ==
    /\ mounted = "talentGraph"
    /\ UNCHANGED othersThanTalentGraph
    /\ talentGraph' = [talentGraph EXCEPT !.neptuneEndpoint = text]

\* convertTextToNodeRelationJson, up to the await
ClickGenerateGraph ==
    /\ mounted = "talentGraph"
    /\ UNCHANGED othersThanTalentGraph
    /\ ~talentGraph.isLoading
    /\ IF Trim(talentGraph.graphDescription) = ""
       THEN talentGraph' = [talentGraph EXCEPT !.error = Str("Please enter a graph description")]
       ELSE talentGraph' = [talentGraph EXCEPT
                !.isLoading = TRUE,
                !.error = Null,
                !.calls = Append(@, [op |-> "convertTextToNodeRelationJson",
                                     text |-> talentGraph.graphDescription])]

\* convertTextToNodeRelationJson, try/catch after the await
GenerateGraphContinuation(resp, cur) ==
    IF resp.threw THEN [cur EXCEPT !.error = NetworkError]
    ELSE LET outer == JSONparse(resp.data)
             inner == JSONparse(outer.v)
             parsedData == inner.v
         IN  IF outer.threw THEN [cur EXCEPT !.error = outer.v]
             ELSE IF inner.threw THEN [cur EXCEPT !.error = inner.v]
             ELSE IF Nullish(parsedData) THEN [cur EXCEPT !.error = TypeError]
             ELSE LET graphData == JSONparse(Get(parsedData, "body"))
                  IN  IF graphData.threw THEN [cur EXCEPT !.error = graphData.v]
                      ELSE [cur EXCEPT !.graph = graphData.v]

\* convertNodeRelationJsonToOpenCypherQuery, up to the await
ClickGenerateQuery ==
    /\ mounted = "talentGraph"
    /\ UNCHANGED othersThanTalentGraph
    /\ ~talentGraph.isLoading
    /\ IF Falsy(talentGraph.graph)
       THEN talentGraph' = [talentGraph EXCEPT !.error = Str("Please generate a graph first")]
       ELSE talentGraph' = [talentGraph EXCEPT
                !.isLoading = TRUE,
                !.error = Null,
                !.calls = Append(@, [op |-> "convertNodeRelationJsonToOpenCypherQuery",
                                     nodeRelationJson |-> JSONstringify(talentGraph.graph)])]

\* the query status check left out
QueryNotOkNever(statusCode) == FALSE

\* if (statusCode !== 200) in the query and execute handlers
QueryNotOk(statusCode) == statusCode # Num(200)

\* convertNodeRelationJsonToOpenCypherQuery, try/catch after the await
GenerateQueryContinuation(resp, cur) ==
    IF resp.threw THEN [cur EXCEPT !.error = NetworkError]
    ELSE LET parsedData == JSONparse(resp.data)
         IN  IF parsedData.threw THEN [cur EXCEPT !.error = parsedData.v]
             ELSE IF Nullish(parsedData.v) THEN [cur EXCEPT !.error = TypeError]
             ELSE LET statusCode == Get(parsedData.v, "statusCode")
                      body == Get(parsedData.v, "body")
                      query == JSONparse(body)
                  IN  IF QueryNotOk(statusCode)
                      THEN [cur EXCEPT !.error = Failure("Failed to generate OpenCypher query", body)]
                      ELSE IF query.threw THEN [cur EXCEPT !.error = query.v]
                      ELSE [cur EXCEPT !.openCypherQuery = query.v]

\* executeOpenCypherQueryForNeptune, up to the await
ClickExecuteQuery ==
    /\ mounted = "talentGraph"
    /\ UNCHANGED othersThanTalentGraph
    /\ ~talentGraph.isLoading
    /\ IF BlankScript(talentGraph.openCypherQuery) \/ Trim(talentGraph.neptuneEndpoint) = ""
       THEN talentGraph' = [talentGraph EXCEPT
                !.error = Str("Please enter an OpenCypher query and Neptune endpoint")]
       ELSE talentGraph' = [talentGraph EXCEPT
                !.isLoading = TRUE,
                !.error = Null,
                !.calls = Append(@, [op |-> "executeOpenCypherQueryForNeptune",
                                     openCypherQuery |-> talentGraph.openCypherQuery,
                                     neptuneEndpoint |-> talentGraph.neptuneEndpoint])]

\* executeOpenCypherQueryForNeptune, try/catch after the await
ExecuteQueryContinuation(resp, cur) ==
    IF resp.threw THEN [cur EXCEPT !.error = NetworkError]
    ELSE LET parsedData == JSONparse(resp.data)
         IN  IF parsedData.threw THEN [cur EXCEPT !.error = parsedData.v]
             ELSE IF Nullish(parsedData.v) THEN [cur EXCEPT !.error = TypeError]
             ELSE LET statusCode == Get(parsedData.v, "statusCode")
                      body == Get(parsedData.v, "body")
                      result == JSONparse(body)
                  IN  IF QueryNotOk(statusCode)
                      THEN [cur EXCEPT !.error = Failure("Failed to execute OpenCypher query", body)]
                      ELSE IF result.threw THEN [cur EXCEPT !.error = result.v]
                      ELSE [cur EXCEPT !.neptuneQueryResult = result.v]

\* What the call in flight can settle with.  convertTextToNodeRelationJson
\* answers with the envelope's JSON text encoded once more; the Query
\* Synthesizer answers with the script, an empty script or a failure; the Graph
\* Executor with the query result, or a failure with or without a body
TalentGraphResponses(call) ==
    {Rejected, Resolved(Null)} \cup
    CASE call.op = "convertTextToNodeRelationJson" ->
            {Resolved(JSONstringify(JSONstringify(e))) : e \in ExtractEnvelopes}
      [] call.op = "convertNodeRelationJsonToOpenCypherQuery" ->
            {Resolved(JSONstringify(e)) : e \in
                { Envelope(200, JSONstringify(SynthesizeQuery(call.nodeRelationJson))),
                  Envelope(200, JSONstringify(Str(""))),
                  Envelope(500, ErrorBody("GenerationServiceError")) }}
      [] call.op = "executeOpenCypherQueryForNeptune" ->
            {Resolved(JSONstringify(e)) : e \in
                { Envelope(200, JSONstringify(Obj("results" :> Arr(<<>>)))),
                  Envelope(500, ErrorBody("GraphEndpointError")),
                  Envelope(500, Undefined) }}

TalentGraphContinuation(call, resp, cur) ==
    CASE call.op = "convertTextToNodeRelationJson" -> GenerateGraphContinuation(resp, cur)
      [] call.op = "convertNodeRelationJsonToOpenCypherQuery" -> GenerateQueryContinuation(resp, cur)
      [] call.op = "executeOpenCypherQueryForNeptune" -> ExecuteQueryContinuation(resp, cur)

\* A handler of the page, from its await to the end of finally
TalentGraphSettle(i, resp) ==
    /\ mounted = "talentGraph"
    /\ UNCHANGED othersThanTalentGraph
    /\ i \in 1..Len(talentGraph.calls)
    /\ resp \in TalentGraphResponses(talentGraph.calls[i])
    /\ talentGraph' = [TalentGraphContinuation(talentGraph.calls[i], resp, talentGraph) EXCEPT
            !.isLoading = FALSE,
            !.calls = RemoveAt(@, i)]

(***************************************************************************)
(* EmployeeTalentGraph (text -> graph only)                                *)
(***************************************************************************)
TalentGraphV1Init ==
    [ graphDescription |-> "",
      graph |-> Null,
      isLoading |-> FALSE,
      error |-> Null,
      calls |-> <<>> ]

\* TextAreaField onChange (the field is disabled while loading)
SetGraphDescriptionV1(text) ==
    /\ mounted = "talentGraphV1"
    /\ UNCHANGED othersThanTalentGraphV1
    /\ ~talentGraphV1.isLoading
    /\ talentGraphV1' = [talentGraphV1 EXCEPT !.graphDescription = text]

\* convertTextToGraph, up to the await
ClickConvertTextToGraph ==
    /\ mounted = "talentGraphV1"
    /\ UNCHANGED othersThanTalentGraphV1
    /\ ~talentGraphV1.isLoading
    /\ IF Trim(talentGraphV1.graphDescription) = ""
       THEN talentGraphV1' = [talentGraphV1 EXCEPT !.error = Str("Please enter a graph description")]
       ELSE talentGraphV1' = [talentGraphV1 EXCEPT
                !.isLoading = TRUE,
                !.error = Null,
                !.graph = Null,
                !.calls = Append(@, [op |-> "convertTextToGraph",
                                     text |-> talentGraphV1.graphDescription])]

\* convertTextToGraph, try/catch after the await
ConvertTextToGraphContinuation(resp, cur) ==
    IF resp.threw THEN [cur EXCEPT !.error = NetworkError]
    ELSE LET parsedData == JSONparse(resp.data)
         IN  IF parsedData.threw THEN [cur EXCEPT !.error = parsedData.v]
             ELSE IF Nullish(parsedData.v) THEN [cur EXCEPT !.error = TypeError]
             ELSE LET statusCode == Get(parsedData.v, "statusCode")
                      body == Get(parsedData.v, "body")
                      graphData == JSONparse(body)
                  IN  IF statusCode # Num(200)
                      THEN [cur EXCEPT !.error = Failure("Failed to generate graph", body)]
                      ELSE IF graphData.threw THEN [cur EXCEPT !.error = graphData.v]
                      ELSE [cur EXCEPT !.graph = graphData.v]

ConvertTextToGraphResponses ==
    {Rejected, Resolved(Null)} \cup {Resolved(JSONstringify(e)) : e \in ExtractEnvelopes}

\* convertTextToGraph, from the await to the end of finally
ConvertTextToGraphSettle(i, resp) ==
    /\ mounted = "talentGraphV1"
    /\ UNCHANGED othersThanTalentGraphV1
    /\ i \in 1..Len(talentGraphV1.calls)
    /\ talentGraphV1' = [ConvertTextToGraphContinuation(resp, talentGraphV1) EXCEPT
            !.isLoading = FALSE,
            !.calls = RemoveAt(@, i)]

(***************************************************************************)
(* SystemPromptSelector                                                    *)
(***************************************************************************)
MaxPrompts == 2
MaxMessages == 2
MaxConverseCalls == 2

\* A record of the systemPrompts model, and a message of a conversation
PromptData(id, name, systemPrompt) ==
    Obj("id" :> Str(id) @@ "name" :> Str(name) @@ "systemPrompt" :> Str(systemPrompt))
Message(role, text) ==
    Obj("role" :> Str(role) @@ "content" :> Arr(<<Obj("text" :> Str(text))>>))

\* The state once the mount effect has run fetchSystemPrompts up to its await
PromptSelectorInit ==
    [ systemPrompts |-> <<>>,
      loading |-> TRUE,
      error |-> Null,
      success |-> Null,
      selectedPrompt |-> "",
      isCreatingNewPrompt |-> FALSE,
      newPromptName |-> "",
      newPromptSystemPrompt |-> "",
      isDeletingPrompt |-> FALSE,
      deletingPromptId |-> "",
      deletingPrompt |-> "",
      userMessage |-> "",
      messages |-> <<>>,
      calls |-> <<[op |-> "list"]>>,
      converseCalls |-> <<>>,
      bannerTimers |-> {} ]

\* the effect with no cleanup: the timer started before stays pending
BannerEffectWithoutCleanup(prev, next) ==
    IF <<next.error, next.success>> = <<prev.error, prev.success>> THEN next
    ELSE [next EXCEPT !.bannerTimers =
                IF Falsy(next.error) /\ Falsy(next.success) THEN @
                ELSE @ \cup {<<next.error, next.success>>}]

\* The banner effect after the render that follows a handler: when error or
\* success has changed, the cleanup clears the pending timer and, if a banner
\* is shown, a timer is started.  A timer is named by the banners it was
\* started for
BannerEffect(prev, next) ==
    IF <<next.error, next.success>> = <<prev.error, prev.success>> THEN next
    ELSE [next EXCEPT !.bannerTimers =
                IF Falsy(next.error) /\ Falsy(next.success) THEN {}
                ELSE {<<next.error, next.success>>}]

\* The `Select a system prompt` field onChange: the placeholder or one of the
\* options (disabled while loading)
SetSelectedPrompt(value) ==
    /\ mounted = "promptSelector"
    /\ UNCHANGED othersThanPromptSelector
    /\ ~promptSelector.loading
    /\ value \in {""} \cup {Get(p, "systemPrompt").s : p \in Range(promptSelector.systemPrompts)}
    /\ promptSelector' = [promptSelector EXCEPT !.selectedPrompt = value]

\* The `Create New Prompt` and `Delete Prompt` buttons (disabled while loading)
ShowForm(form) ==
    /\ mounted = "promptSelector"
    /\ UNCHANGED othersThanPromptSelector
    /\ ~promptSelector.loading
    /\ promptSelector' =
            IF form = "create" THEN [promptSelector EXCEPT !.isCreatingNewPrompt = TRUE]
            ELSE [promptSelector EXCEPT !.isDeletingPrompt = TRUE]

\* The Name and System Prompt fields of the create form onChange
SetNewPrompt(field, text) ==
    /\ mounted = "promptSelector"
    /\ UNCHANGED othersThanPromptSelector
    /\ promptSelector.isCreatingNewPrompt
    /\ ~promptSelector.loading
    /\ promptSelector' =
            IF field = "name" THEN [promptSelector EXCEPT !.newPromptName = text]
            ELSE [promptSelector EXCEPT !.newPromptSystemPrompt = text]

\* The `Select a prompt to delete` field onChange
SetDeletingPromptId(value) ==
    /\ mounted = "promptSelector"
    /\ UNCHANGED othersThanPromptSelector
    /\ promptSelector.isDeletingPrompt
    /\ ~promptSelector.loading
    /\ value \in {""} \cup {Get(p, "id").s : p \in Range(promptSelector.systemPrompts)}
    /\ promptSelector' = [promptSelector EXCEPT !.deletingPromptId = value]

\* Register onClick: createSystemPrompt up to the await, or through finally
\* when a field is blank
ClickRegister ==
    /\ mounted = "promptSelector"
    /\ UNCHANGED othersThanPromptSelector
    /\ promptSelector.isCreatingNewPrompt
    /\ ~promptSelector.loading
    /\ Len(promptSelector.systemPrompts) < MaxPrompts
    /\ IF Trim(promptSelector.newPromptName) = "" \/ Trim(promptSelector.newPromptSystemPrompt) = ""
       THEN promptSelector' = BannerEffect(promptSelector, [promptSelector EXCEPT
                !.error = Str("Name and system prompt are required"),
                !.loading = FALSE])
       ELSE promptSelector' = BannerEffect(promptSelector, [promptSelector EXCEPT
                !.loading = TRUE,
                !.error = Null,
                !.calls = Append(@, [op |-> "create",
                                     name |-> promptSelector.newPromptName,
                                     systemPrompt |-> promptSelector.newPromptSystemPrompt])])

\* Delete onClick: deleteSystemPrompt up to the await (the button is disabled
\* while loading and while no prompt is chosen)
ClickDelete ==
    /\ mounted = "promptSelector"
    /\ UNCHANGED othersThanPromptSelector
    /\ promptSelector.isDeletingPrompt
    /\ ~promptSelector.loading
    /\ promptSelector.deletingPromptId # ""
    /\ promptSelector' = BannerEffect(promptSelector, [promptSelector EXCEPT
            !.loading = TRUE,
            !.error = Null,
            !.calls = Append(@, [op |-> "delete", id |-> promptSelector.deletingPromptId])])

\* What a call of client.models.systemPrompts settles with: it rejects, or
\* resolves to {data, errors}
SystemPromptsResponses(call, cur) ==
    LET ModelResult(data, errors) == [threw |-> FALSE, data |-> data, errors |-> errors]
        failures ==
            { [threw |-> TRUE, data |-> Undefined, errors |-> Undefined],
              ModelResult(Null, Arr(<<Obj("message" :> Str("e1"))>>)),
              ModelResult(Null, Arr(<<Obj(EmptyObj)>>)) }
        ids == {"1", "2"} \ {Get(p, "id").s : p \in Range(cur.systemPrompts)}
    IN  failures \cup
        CASE call.op = "list" ->
                { ModelResult(d, Undefined) :
                    d \in {Null, Arr(<<>>), Arr(<<PromptData("1", "n1", "p1")>>)} }
          [] call.op = "create" ->
                { ModelResult(PromptData(id, call.name, call.systemPrompt), Undefined) : id \in ids }
          [] call.op = "delete" ->
                { ModelResult(PromptData(call.id, "n1", "p1"), Arr(<<>>)) }

\* the new record put first
CreatedPromptsFirst(prevPrompts, data) == <<data>> \o prevPrompts

\* (prevPrompts) => [...prevPrompts, data]
CreatedPrompts(prevPrompts, data) == Append(prevPrompts, data)

\* the first prompt removed, whatever its id
RemainingPromptsTail(prevPrompts, promptId) == Tail(prevPrompts)

\* (prevPrompts) => prevPrompts.filter((prompt) => prompt.id !== promptId)
RemainingPrompts(prevPrompts, promptId) ==
    SelectSeq(prevPrompts, LAMBDA prompt : Get(prompt, "id") # Str(promptId))

\* fetchSystemPrompts, createSystemPrompt and deleteSystemPrompt, try/catch
\* after the await
SystemPromptsContinuation(call, resp, cur) ==
    LET failed == "Failed to " \o (IF call.op = "list" THEN "fetch system prompts"
                                   ELSE call.op \o " system prompt")
    IN  IF resp.threw THEN [cur EXCEPT !.error = NetworkError]
        ELSE IF ~Nullish(resp.errors) /\ Len(resp.errors.a) # 0
        THEN [cur EXCEPT !.error = OrElse(OptGet(resp.errors.a[1], "message"), Str(failed))]
        ELSE CASE call.op = "list" ->
                    [cur EXCEPT !.systemPrompts = IF Falsy(resp.data) THEN <<>> ELSE resp.data.a]
               [] call.op = "create" ->
                    [cur EXCEPT
                        !.systemPrompts = CreatedPrompts(@, resp.data),
                        !.success = Str("Prompt created successfully"),
                        !.isCreatingNewPrompt = FALSE,
                        !.newPromptName = "",
                        !.newPromptSystemPrompt = ""]
               [] call.op = "delete" ->
                    [cur EXCEPT
                        !.systemPrompts = RemainingPrompts(@, call.id),
                        !.success = Str("Prompt deleted successfully"),
                        !.isDeletingPrompt = FALSE,
                        !.deletingPromptId = ""]

\* setLoading(false) at the end of try, with no finally
SystemPromptsSettleWithoutFinally(i, resp) ==
    /\ mounted = "promptSelector"
    /\ UNCHANGED othersThanPromptSelector
    /\ i \in 1..Len(promptSelector.calls)
    /\ resp \in SystemPromptsResponses(promptSelector.calls[i], promptSelector)
    /\ promptSelector' = BannerEffect(promptSelector,
            [SystemPromptsContinuation(promptSelector.calls[i], resp, promptSelector) EXCEPT
                !.loading = IF resp.threw \/ (~Nullish(resp.errors) /\ Len(resp.errors.a) # 0)
                            THEN @ ELSE FALSE,
                !.calls = RemoveAt(@, i)])

\* fetchSystemPrompts, createSystemPrompt and deleteSystemPrompt, from the
\* await to the end of finally
SystemPromptsSettle(i, resp) ==
    /\ mounted = "promptSelector"
    /\ UNCHANGED othersThanPromptSelector
    /\ i \in 1..Len(promptSelector.calls)
    /\ resp \in SystemPromptsResponses(promptSelector.calls[i], promptSelector)
    /\ promptSelector' = BannerEffect(promptSelector,
            [SystemPromptsContinuation(promptSelector.calls[i], resp, promptSelector) EXCEPT
                !.loading = FALSE,
                !.calls = RemoveAt(@, i)])

\* An Alert's onDismiss
DismissAlert(banner) ==
    /\ mounted = "promptSelector"
    /\ UNCHANGED othersThanPromptSelector
    /\ IF banner = "error"
       THEN /\ ~Falsy(promptSelector.error)
            /\ promptSelector' =
                    BannerEffect(promptSelector, [promptSelector EXCEPT !.error = Null])
       ELSE /\ ~Falsy(promptSelector.success)
            /\ promptSelector' =
                    BannerEffect(promptSelector, [promptSelector EXCEPT !.success = Null])

\* A pending timer of the banner effect fires: setError(null), setSuccess(null)
BannerTimeout ==
    /\ mounted = "promptSelector"
    /\ UNCHANGED othersThanPromptSelector
    /\ \E timer \in promptSelector.bannerTimers :
            promptSelector' = BannerEffect(promptSelector, [promptSelector EXCEPT
                !.error = Null,
                !.success = Null,
                !.bannerTimers = @ \ {timer}])

\* The Test Chat field onChange
SetUserMessage(text) ==
    /\ mounted = "promptSelector"
    /\ UNCHANGED othersThanPromptSelector
    /\ promptSelector' = [promptSelector EXCEPT !.userMessage = text]

\* Converse onClick: handleConverse up to the await (the button is never
\* disabled).  The message is pushed onto the array the state holds
ClickConverse ==
    /\ mounted = "promptSelector"
    /\ UNCHANGED othersThanPromptSelector
    /\ Len(promptSelector.messages) < MaxMessages
    /\ Len(promptSelector.converseCalls) < MaxConverseCalls
    /\ LET pushed == Append(promptSelector.messages, Message("user", promptSelector.userMessage))
       IN  promptSelector' = [promptSelector EXCEPT
                !.messages = pushed,
                !.converseCalls = Append(@, [op |-> "converseSystemPrompt",
                                             systemPrompt |-> promptSelector.selectedPrompt,
                                             Messages |-> JSONstringify(Arr(pushed)),
                                             detached |-> FALSE])]

\* Clear onClick: the state holds a new empty array; the handlers that are
\* waiting keep the array they started with
ClearConversation ==
    /\ mounted = "promptSelector"
    /\ UNCHANGED othersThanPromptSelector
    /\ promptSelector' = [promptSelector EXCEPT
            !.messages = <<>>,
            !.userMessage = "",
            !.converseCalls = [c \in DOMAIN @ |-> [@[c] EXCEPT !.detached = TRUE]]]

\* What converseSystemPrompt can settle with: {statusCode, body} with body
\* absent or the JSON text of {messages} or of {message}
ConverseResponses ==
    LET bodies == { Obj("messages" :> Arr(<<Message("assistant", "a1")>>)),
                    Obj("messages" :> Arr(<<>>)),
                    Obj("message" :> Str("m1")) }
        envelopes ==
            { Obj(Fld("statusCode", Num(c)) @@ Fld("body", b)) :
                c \in StatusCodes,
                b \in {Undefined} \cup {JSONstringify(x) : x \in bodies} }
    IN  {Rejected, Resolved(Null)} \cup {Resolved(JSONstringify(e)) : e \in envelopes}

\* the reply pushed onto the array the state holds when the reply arrives
ConverseContinuationOnStateArray(call, resp, cur) ==
    LET caught == [cur EXCEPT !.error = Str("Failed to get response from AI")]
    IN  IF resp.threw THEN caught
        ELSE LET data == JSONparse(resp.data)
             IN  IF data.threw \/ Nullish(data.v) THEN caught
                 ELSE LET body == JSONparse(Get(data.v, "body"))
                      IN  IF body.threw \/ Nullish(body.v) THEN caught
                          ELSE LET all == Get(body.v, "messages")
                               IN  IF Nullish(all) THEN caught
                                   ELSE [cur EXCEPT
                                            !.messages = Append(@, IF Len(all.a) = 0 THEN Undefined
                                                                   ELSE all.a[1]),
                                            !.userMessage = ""]

\* handleConverse, try/catch after the await
ConverseContinuation(call, resp, cur) ==
    LET caught == [cur EXCEPT !.error = Str("Failed to get response from AI")]
    IN  IF resp.threw THEN caught
        ELSE LET data == JSONparse(resp.data)
             IN  IF data.threw \/ Nullish(data.v) THEN caught
                 ELSE LET body == JSONparse(Get(data.v, "body"))
                      IN  IF body.threw \/ Nullish(body.v) THEN caught
                          ELSE LET all == Get(body.v, "messages")
                               IN  IF Nullish(all) THEN caught
                                   ELSE LET response_message ==
                                                IF Len(all.a) = 0 THEN Undefined ELSE all.a[1]
                                        IN  [cur EXCEPT
                                                !.messages = IF call.detached THEN @
                                                             ELSE Append(@, response_message),
                                                !.userMessage = ""]

\* handleConverse, from the await to its end
ConverseSettle(i, resp) ==
    /\ mounted = "promptSelector"
    /\ UNCHANGED othersThanPromptSelector
    /\ i \in 1..Len(promptSelector.converseCalls)
    /\ promptSelector' = BannerEffect(promptSelector,
            [ConverseContinuation(promptSelector.converseCalls[i], resp, promptSelector) EXCEPT
                !.converseCalls = RemoveAt(@, i)])

(***************************************************************************)
(* The pages: one component is mounted, and only its handlers run.         *)
(***************************************************************************)
PagesInit ==
    /\ retriever = RetrieverInit
    /\ knowledgeBase = KnowledgeBaseInit
    /\ talentGraph = TalentGraphInit
    /\ talentGraphV1 = TalentGraphV1Init
    /\ promptSelector = PromptSelectorInit

RetrieverNext ==
    \/ \E text \in {"", " ", "fruit"} : SetQuery(text)
    \/ \E text \in {"", "abc", "0", "3", "-2"} : SetK(text)
    \/ ClickCreateFaissIndex
    \/ \E i \in 1..Len(retriever.faissCalls), resp \in FaissResponses : CreateFaissIndexSettle(i, resp)
    \/ ClickGetAnswer
    \/ \E i \in 1..Len(retriever.ragCalls), resp \in RagResponses : GetAnswerSettle(i, resp)

KnowledgeBaseNext ==
    \/ \E op \in {"create", "delete"} : ClickKnowledgeBase(op)
    \/ \E i \in 1..Len(knowledgeBase.calls), resp \in KbResponses : KnowledgeBaseSettle(i, resp)

TalentGraphNext ==
    \/ \E text \in GraphDescriptionInputs : SetGraphDescription(text)
    \/ \E text \in {"", " ", "neptune:8182"} : SetNeptuneEndpoint(text)
    \/ ClickGenerateGraph
    \/ ClickGenerateQuery
    \/ ClickExecuteQuery
    \/ \E i \in 1..Len(talentGraph.calls) :
            \E resp \in TalentGraphResponses(talentGraph.calls[i]) : TalentGraphSettle(i, resp)

TalentGraphV1Next ==
    \/ \E text \in GraphDescriptionInputs : SetGraphDescriptionV1(text)
    \/ ClickConvertTextToGraph
    \/ \E i \in 1..Len(talentGraphV1.calls), resp \in ConvertTextToGraphResponses :
            ConvertTextToGraphSettle(i, resp)

\* The prompts of the page: the list, the create form and the delete form
SystemPromptsNext ==
    \/ \E value \in {"", "p1"} : SetSelectedPrompt(value)
    \/ \E form \in {"create", "delete"} : ShowForm(form)
    \/ \E field \in {"name", "systemPrompt"}, text \in {" ", "p1"} : SetNewPrompt(field, text)
    \/ \E value \in {"", "1", "2"} : SetDeletingPromptId(value)
    \/ ClickRegister
    \/ ClickDelete
    \/ \E i \in 1..Len(promptSelector.calls) :
            \E resp \in SystemPromptsResponses(promptSelector.calls[i], promptSelector) :
                SystemPromptsSettle(i, resp)
    \/ \E banner \in {"error", "success"} : DismissAlert(banner)
    \/ BannerTimeout

\* The chat of the page
ConverseNext ==
    \/ \E text \in {"", "hi"} : SetUserMessage(text)
    \/ ClickConverse
    \/ ClearConversation
    \/ \E i \in 1..Len(promptSelector.converseCalls), resp \in ConverseResponses :
            ConverseSettle(i, resp)

(***************************************************************************)
(* Index Builder and Retriever                                             *)
(***************************************************************************)
MaxK == 4

Document(key, text) == [key |-> key, text |-> text]
DocumentPool ==
    {Document("a.txt", "apple"), Document("b.txt", "banana"), Document("c.txt", "apple")}
QueryPool == {"fruit", "yellow", "rotten"}

\* Sequences of distinct documents (a document's key is unique)
RECURSIVE DistinctSeqs(_)
DistinctSeqs(pool) ==
    {<<>>} \cup UNION { { <<d>> \o rest : rest \in DistinctSeqs(pool \ {d}) } : d \in pool }

\* Embedding Service: a unit vector per text
Embed(text) ==
    CASE text = "apple" -> <<1, 0>>
      [] text = "fruit" -> <<1, 0>>
      [] text = "banana" -> <<0, 1>>
      [] text = "yellow" -> <<0, 1>>
      [] OTHER -> <<0 - 1, 0>>

\* Cosine similarity of unit vectors
Score(vector, queryVector) == vector[1] * queryVector[1] + vector[2] * queryVector[2]

\* build: one vector per document in input order, doc_ids 0, 1, ... in
\* processing order, and the parallel metadata table doc_id -> {doc_key, doc_text}
BuildIndex(documents) ==
    [ index |-> [i \in 1..Len(documents) |->
                    [vector |-> Embed(documents[i].text), doc_id |-> i - 1]],
      metadata |-> [id \in 0..(Len(documents) - 1) |->
                    [doc_key |-> documents[id + 1].key, doc_text |-> documents[id + 1].text]] ]

\* ties broken by descending doc_id
RanksBeforeByLatest(a, b, queryVector) ==
    \/ Score(a.vector, queryVector) > Score(b.vector, queryVector)
    \/ /\ Score(a.vector, queryVector) = Score(b.vector, queryVector)
       /\ a.doc_id > b.doc_id

\* Descending score, ties broken by ascending doc_id
RanksBefore(a, b, queryVector) ==
    \/ Score(a.vector, queryVector) > Score(b.vector, queryVector)
    \/ /\ Score(a.vector, queryVector) = Score(b.vector, queryVector)
       /\ a.doc_id < b.doc_id

RECURSIVE Ranked(_, _)
Ranked(entries, queryVector) ==
    IF entries = {} THEN <<>>
    ELSE LET best == CHOOSE a \in entries :
                        \A b \in entries \ {a} : RanksBefore(a, b, queryVector)
         IN  <<best>> \o Ranked(entries \ {best}, queryVector)

\* one result fewer when k reaches the size of the index
ResultCountShort(k, n) == IF k < n THEN k ELSE IF n > 0 THEN n - 1 ELSE 0

\* How many documents a search returns
ResultCount(k, n) == IF k < n THEN k ELSE n

\* search: the top k by rank, each annotated with its metadata-table key and
\* text; a doc_id without a metadata entry cannot be annotated
Search(index, metadata, query, k) ==
    LET ranked == Ranked(Range(index), Embed(query))
        top == SubSeq(ranked, 1, ResultCount(k, Len(index)))
    IN  IF \E i \in 1..Len(top) : top[i].doc_id \notin DOMAIN metadata
        THEN [error |-> "MetadataLookupError", docs |-> <<>>]
        ELSE [error |-> "",
              docs |-> [i \in 1..Len(top) |->
                          [doc_key |-> metadata[top[i].doc_id].doc_key,
                           doc_text |-> metadata[top[i].doc_id].doc_text,
                           score |-> Score(top[i].vector, Embed(query))]]]

\* no generation when nothing was retrieved: the query fails
AnswerQueryFailingOnEmpty(index, metadata, query, k, generated) ==
    [ generation |-> <<>>, answer |-> "", retrievedDocs |-> <<>>,
      envelope |-> Obj("statusCode" :> Num(500)
                       @@ "body" :> JSONstringify(Obj("message" :> Str("m1")))) ]

\* RAG Orchestrator answer(index, metadata, query, k): the retriever is called,
\* one prompt is built from the retrieved texts (each with its key, in the
\* order returned) and the query, the generation service is called once with
\* it, and the text it generated is returned as it is with the retrieved set
AnswerQuery(index, metadata, query, k, generated) ==
    LET found == Search(index, metadata, query, k).docs
        position(i) == CASE i = 1 -> "0" [] i = 2 -> "1" [] i = 3 -> "2" [] OTHER -> "3"
        prompt == [ context |-> [i \in 1..Len(found) |-> <<found[i].doc_key, found[i].doc_text>>],
                    query |-> query ]
    IN  [ generation |-> <<prompt>>,
          answer |-> generated,
          retrievedDocs |-> found,
          envelope |->
              Obj("statusCode" :> Num(200)
                  @@ "body" :> JSONstringify(Obj(
                        "status" :> Str("success")
                        @@ "answer" :> Str(generated)
                        @@ "retrieved_docs" :>
                              Obj([key \in {position(i) : i \in 1..Len(found)} |->
                                    LET i == CHOOSE j \in 1..Len(found) : position(j) = key
                                    IN  Obj("doc_key" :> Str(found[i].doc_key)
                                            @@ "doc_text" :> Str(found[i].doc_text))])))) ]

(***************************************************************************)
(* A build followed by searches, one call at a time                        *)
(***************************************************************************)
RetrievalIdle ==
    [pc |-> "idle", documents |-> <<>>, index |-> <<>>, metadata |-> <<>>,
     query |-> "", k |-> 0, result |-> [error |-> "", docs |-> <<>>]]

RetrievalInit ==
    \E documents \in DistinctSeqs(DocumentPool) :
        retrieval = [RetrievalIdle EXCEPT !.pc = "documents", !.documents = documents]

RetrievalBuild ==
    /\ retrieval.pc = "documents"
    /\ UNCHANGED <<pages, objectStore, builder, searcher, neptune>>
    /\ retrieval' = [retrieval EXCEPT
            !.pc = "built",
            !.index = BuildIndex(retrieval.documents).index,
            !.metadata = BuildIndex(retrieval.documents).metadata]

RetrievalSearch(query, k) ==
    /\ retrieval.pc \in {"built", "searched"}
    /\ UNCHANGED <<pages, objectStore, builder, searcher, neptune>>
    /\ retrieval' = [retrieval EXCEPT
            !.pc = "searched",
            !.query = query,
            !.k = k,
            !.result = Search(retrieval.index, retrieval.metadata, query, k)]

RetrievalNext ==
    \/ RetrievalBuild
    \/ \E query \in QueryPool, k \in 1..MaxK : RetrievalSearch(query, k)

(***************************************************************************)
(* The published index: builds and searches against the storage bucket     *)
(***************************************************************************)
NoSuchKey == [exists |-> FALSE]
Object(body) == [exists |-> TRUE, body |-> body]

IndexDocumentPool == {Document("a.txt", "apple"), Document("b.txt", "banana")}

ObjectStoreInit == [key \in {s3_index_key, metadata_key} |-> NoSuchKey]
BuilderIdle == [pc |-> "idle", index |-> <<>>, metadata |-> <<>>, error |-> ""]
SearcherIdle ==
    [pc |-> "idle", query |-> "", k |-> 0, index |-> NoSuchKey, metadata |-> NoSuchKey,
     result |-> [error |-> "", docs |-> <<>>]]

\* build: every document is embedded and the pair is staged
BuildStage(documents) ==
    /\ builder.pc = "idle"
    /\ UNCHANGED <<pages, objectStore, searcher, retrieval, neptune>>
    /\ builder' = [pc |-> "staged",
                   index |-> BuildIndex(documents).index,
                   metadata |-> BuildIndex(documents).metadata,
                   error |-> ""]

\* the documents embedded before the failure are published
BuildFailPartial(documents, failedDoc) ==
    /\ builder.pc = "idle"
    /\ failedDoc \in 1..Len(documents)
    /\ UNCHANGED <<pages, searcher, retrieval, neptune>>
    /\ objectStore' =
          [objectStore EXCEPT
              ![s3_index_key] = Object(BuildIndex(SubSeq(documents, 1, failedDoc - 1)).index),
              ![metadata_key] = Object(BuildIndex(SubSeq(documents, 1, failedDoc - 1)).metadata)]
    /\ builder' = [BuilderIdle EXCEPT !.error = "IndexBuildError:" \o documents[failedDoc].key]

\* build: embedding the document failedDoc fails, and so does the build
BuildFail(documents, failedDoc) ==
    /\ builder.pc = "idle"
    /\ failedDoc \in 1..Len(documents)
    /\ UNCHANGED <<pages, objectStore, searcher, retrieval, neptune>>
    /\ builder' = [BuilderIdle EXCEPT !.error = "IndexBuildError:" \o documents[failedDoc].key]

\* build: the staged index is written to its key
PromoteIndex ==
    /\ builder.pc = "staged"
    /\ UNCHANGED <<pages, searcher, retrieval, neptune>>
    /\ objectStore' = [objectStore EXCEPT ![s3_index_key] = Object(builder.index)]
    /\ builder' = [builder EXCEPT !.pc = "indexPromoted"]

\* build: the staged metadata table is written to its key
PromoteMetadata ==
    /\ builder.pc = "indexPromoted"
    /\ UNCHANGED <<pages, searcher, retrieval, neptune>>
    /\ objectStore' = [objectStore EXCEPT ![metadata_key] = Object(builder.metadata)]
    /\ builder' = BuilderIdle

\* search: the index is read from its key
SearchReadIndex(query, k) ==
    /\ searcher.pc \in {"idle", "done"}
    /\ UNCHANGED <<pages, objectStore, builder, retrieval, neptune>>
    /\ searcher' = [SearcherIdle EXCEPT
            !.pc = "indexRead",
            !.query = query,
            !.k = k,
            !.index = objectStore[s3_index_key]]

\* search: the metadata table is read from its key and the result is computed
SearchReadMetadata ==
    /\ searcher.pc = "indexRead"
    /\ UNCHANGED <<pages, objectStore, builder, retrieval, neptune>>
    /\ searcher' = [searcher EXCEPT
            !.pc = "done",
            !.metadata = objectStore[metadata_key],
            !.result =
                IF ~searcher.index.exists \/ ~objectStore[metadata_key].exists
                THEN [error |-> "IndexNotFoundError", docs |-> <<>>]
                ELSE Search(searcher.index.body, objectStore[metadata_key].body,
                            searcher.query, searcher.k)]

IndexNext ==
    \/ \E documents \in DistinctSeqs(IndexDocumentPool) : BuildStage(documents)
    \/ \E documents \in DistinctSeqs(IndexDocumentPool), failedDoc \in 1..Cardinality(IndexDocumentPool) :
            BuildFail(documents, failedDoc)
    \/ PromoteIndex
    \/ PromoteMetadata
    \/ \E k \in 1..MaxK : SearchReadIndex("fruit", k)
    \/ SearchReadMetadata

(***************************************************************************)
(* A script submitted to the graph store, again and again                  *)
(***************************************************************************)
MaxRuns == 2

\* The subsequences of a sequence
RECURSIVE SubSeqs(_)
SubSeqs(seq) ==
    IF seq = <<>> THEN {<<>>}
    ELSE LET rest == SubSeqs(Tail(seq))
         IN  rest \cup { <<Head(seq)>> \o r : r \in rest }

\* The default script and the scripts synthesized from well-formed graphs
GraphScripts ==
    LET graphs ==
            { g \in [nodes : DistinctSeqs({Alice, Person("Bob"), Acme}),
                     edges : SubSeqs(<<AliceWorksForAcme,
                                       Edge(Person("Bob"), Company("Acme"), "WORKS_FOR"),
                                       Edge(Person("Alice"), Person("Bob"), "KNOWS")>>)] :
                WellFormed(g) }
    IN  {openCypherQueryDefault.script} \cup {Synthesize(g) : g \in graphs}

NeptuneIdle == [script |-> <<>>, store |-> [constraints |-> {}, nodes |-> <<>>, edges |-> <<>>], runs |-> 0]

NeptuneInit ==
    \E script \in GraphScripts : neptune = [NeptuneIdle EXCEPT !.script = script]

\* execute: the whole script is submitted as one request
ExecuteGraphScript ==
    /\ neptune.runs < MaxRuns
    /\ UNCHANGED <<pages, objectStore, builder, searcher, retrieval>>
    /\ neptune' = [neptune EXCEPT
            !.store = ExecStatements(neptune.store, neptune.script),
            !.runs = @ + 1]

BackEndIdle ==
    /\ objectStore = ObjectStoreInit
    /\ builder = BuilderIdle
    /\ searcher = SearcherIdle
    /\ retrieval = RetrievalIdle
    /\ neptune = NeptuneIdle

\* The component of one of the pages ps mounts; no page for "none"
InitPages(ps) ==
    /\ mounted \in ps
    /\ PagesInit
    /\ BackEndIdle

Init ==
    InitPages({"retriever", "knowledgeBase", "talentGraph", "talentGraphV1", "promptSelector"})

Next ==
    \/ RetrieverNext
    \/ KnowledgeBaseNext
    \/ TalentGraphNext
    \/ TalentGraphV1Next
    \/ SystemPromptsNext
    \/ ConverseNext

\* Every page
Spec == Init /\ [][Next]_vars

\* The RAG page
SpecRetriever == InitPages({"retriever"}) /\ [][RetrieverNext]_vars

\* The two graph pages
SpecGraphPages ==
    InitPages({"talentGraph", "talentGraphV1"}) /\ [][TalentGraphNext \/ TalentGraphV1Next]_vars

\* The pages whose handlers raise an in-progress flag: the RAG page, the graph
\* page and the prompts of the prompt page
SpecInProgress ==
    InitPages({"retriever", "talentGraph", "promptSelector"})
        /\ [][RetrieverNext \/ TalentGraphNext \/ SystemPromptsNext]_vars

\* The prompts of the prompt page, where a pending timer fires in the end
SpecBanners ==
    InitPages({"promptSelector"}) /\ [][SystemPromptsNext]_vars /\ WF_vars(BannerTimeout)

\* The RAG page, the graph page and the chat of the prompt page
SpecInvocations ==
    InitPages({"retriever", "talentGraph", "promptSelector"})
        /\ [][RetrieverNext \/ TalentGraphNext \/ ConverseNext]_vars

\* The pages that call the back end from buttons: the graph page, the
\* knowledge-base page and the chat of the prompt page
SpecCallers ==
    InitPages({"talentGraph", "knowledgeBase", "promptSelector"})
        /\ [][TalentGraphNext \/ KnowledgeBaseNext \/ ConverseNext]_vars

\* The graph page and the knowledge-base page
SpecQueryPages ==
    InitPages({"talentGraph", "knowledgeBase"}) /\ [][TalentGraphNext \/ KnowledgeBaseNext]_vars

\* Builds and searches against the storage bucket
SpecIndex == InitPages({"none"}) /\ [][IndexNext]_vars

InitRetrieval ==
    /\ mounted = "none" /\ PagesInit
    /\ objectStore = ObjectStoreInit /\ builder = BuilderIdle /\ searcher = SearcherIdle
    /\ neptune = NeptuneIdle
    /\ RetrievalInit

\* A build followed by searches
SpecRetrieval == InitRetrieval /\ [][RetrievalNext]_vars

InitScript ==
    /\ mounted = "none" /\ PagesInit
    /\ objectStore = ObjectStoreInit /\ builder = BuilderIdle /\ searcher = SearcherIdle
    /\ retrieval = RetrievalIdle
    /\ NeptuneInit

\* A script executed against an empty graph store
SpecScript == InitScript /\ [][ExecuteGraphScript]_vars

(***************************************************************************)
(* Claims                                                                  *)
(***************************************************************************)

\* The envelope a resolved response carries, and the object its body encodes
EnvelopeOf(resp) == resp.data.json
BodyOf(resp) == Get(EnvelopeOf(resp), "body").json
IsEnvelope(resp) == ~resp.threw /\ resp.data # Null
HasBody(resp) == IsEnvelope(resp) /\ Get(EnvelopeOf(resp), "body") # Undefined

\* The pair some build of the documents produces
BuiltPair(index, metadata) ==
    \E documents \in DistinctSeqs(IndexDocumentPool) :
        /\ index = BuildIndex(documents).index
        /\ metadata = BuildIndex(documents).metadata

C2_AnswerOnlyOnSuccess ==
    [][\A i \in 1..Len(retriever.ragCalls), resp \in RagResponses :
        GetAnswerSettle(i, resp) =>
            IF ~IsEnvelope(resp)
            THEN retriever'.ragResponse = Str("") /\ retriever'.ragError # Str("")
            ELSE IF ~HasBody(resp)
            THEN /\ retriever'.ragResponse = Str("")
                 /\ retriever'.ragError = Str("No response body found.")
            ELSE IF Get(EnvelopeOf(resp), "statusCode") # Num(200)
            THEN /\ retriever'.ragResponse = Str("")
                 /\ retriever'.ragError =
                        Tpl("Error ${statusCode}: ${maybeMessage}",
                            <<Get(EnvelopeOf(resp), "statusCode"),
                              IF Get(BodyOf(resp), "message") = Undefined
                              THEN Str("Request failed.")
                              ELSE Get(BodyOf(resp), "message")>>)
            ELSE IF Get(BodyOf(resp), "status") = Str("error")
            THEN retriever'.ragResponse = Str("") /\ retriever'.ragError # Str("")
            ELSE /\ retriever'.ragError = Str("")
                 /\ retriever'.ragResponse =
                        (IF Get(BodyOf(resp), "answer") = Undefined
                         THEN Str("")
                         ELSE Get(BodyOf(resp), "answer"))
      ]_vars

\* A non-200 response with a message has settled and its error is shown
C2_Witness ==
    /\ retriever.ragError = Tpl("Error ${statusCode}: ${maybeMessage}", <<Num(500), Str("m1")>>)
    /\ retriever.ragResponse = Str("")
    /\ ~retriever.isProcessingRag

\* The envelope an extraction call resolved with is a failure
ExtractFailed(resp) == IsEnvelope(resp) /\ Get(EnvelopeOf(resp), "statusCode") # Num(200)

\* C3: an extractGraph response whose envelope statusCode is not 200 is a
\* failure for the caller: when the call settles, on either graph page, an
\* error is set and the graph shown is the one shown before, not the decoded
\* response body.
C3_ExtractFailureIsFailure ==
    [][ /\ \A i \in 1..Len(talentGraph.calls), e \in ExtractEnvelopes :
            /\ talentGraph.calls[i].op = "convertTextToNodeRelationJson"
            /\ TalentGraphSettle(i, Resolved(JSONstringify(JSONstringify(e))))
            /\ Get(e, "statusCode") # Num(200)
            => /\ talentGraph'.error # Null
               /\ talentGraph'.graph = talentGraph.graph
        /\ \A i \in 1..Len(talentGraphV1.calls), resp \in ConvertTextToGraphResponses :
            ConvertTextToGraphSettle(i, resp) /\ ExtractFailed(resp)
            => /\ talentGraphV1'.error # Null
               /\ talentGraphV1'.graph = talentGraphV1.graph
      ]_vars

\* C4: buildIndex is double-decoded: when Create FAISS Index settles with an
\* envelope {statusCode, body} whose body is the JSON text of {message: m}, the
\* message shown is m and the status code shown is statusCode.
C4_DoubleDecodedMessageShown ==
    [][\A i \in 1..Len(retriever.faissCalls), resp \in FaissResponses :
        CreateFaissIndexSettle(i, resp) /\ HasBody(resp) =>
            /\ retriever'.createFaissIndexResponseStatusCode = Get(EnvelopeOf(resp), "statusCode")
            /\ retriever'.createFaissIndexResponseMessage = Get(BodyOf(resp), "message")
      ]_vars

\* The messages the knowledge-base page shows for a failure and for a success
KbErrorShown(m) ==
    m.fmt \in { "Error " \o doing \o " knowledge base: ${" \o what \o "}" :
                    doing \in {"creating", "deleting"}, what \in {"error", "message"} }
KbSuccessShown(m) ==
    m.fmt \in { "Knowledge Base " \o done
                    \o " successfully.\nstatusCode: ${statusCode}\nMessage: ${message}" :
                    done \in {"created", "deleted"} }

\* C5: for synthesizeQuery, executeGraphQuery, createKnowledgeBase and
\* deleteKnowledgeBase a non-200 statusCode is reported as a failure and
\* nothing else: when the call settles an error message is shown, openCypherQuery
\* and neptuneQueryResult are the ones shown before, and the knowledge-base
\* success message is shown only when statusCode is 200.
C5_NonOkReportedAsFailure ==
    [][ /\ \A i \in 1..Len(talentGraph.calls) :
            \A resp \in TalentGraphResponses(talentGraph.calls[i]) :
                /\ talentGraph.calls[i].op # "convertTextToNodeRelationJson"
                /\ TalentGraphSettle(i, resp)
                /\ IsEnvelope(resp)
                /\ Get(EnvelopeOf(resp), "statusCode") # Num(200)
                => /\ talentGraph'.error # Null
                   /\ talentGraph'.error.fmt \in
                        {"Failed to generate OpenCypher query: ${body || \"Unknown error\"}",
                         "Failed to execute OpenCypher query: ${body || \"Unknown error\"}"}
                   /\ talentGraph'.openCypherQuery = talentGraph.openCypherQuery
                   /\ talentGraph'.neptuneQueryResult = talentGraph.neptuneQueryResult
                   /\ talentGraph'.graph = talentGraph.graph
        /\ \A i \in 1..Len(knowledgeBase.calls), resp \in KbResponses :
            KnowledgeBaseSettle(i, resp)
            => LET ok == IsEnvelope(resp) /\ Get(EnvelopeOf(resp), "statusCode") = Num(200)
               IN  /\ ~ok => KbErrorShown(knowledgeBase'.statusMessage)
                   /\ KbSuccessShown(knowledgeBase'.statusMessage) => ok
      ]_vars

\* A failed synthesizeQuery has settled: its error is shown and the script is
\* the one shown before
C5_Witness ==
    /\ talentGraph.error =
            Failure("Failed to generate OpenCypher query", ErrorBody("GenerationServiceError"))
    /\ talentGraph.openCypherQuery = openCypherQueryDefault
    /\ talentGraph.graph = GraphValue([nodes |-> <<Alice, Acme>>, edges |-> <<AliceWorksForAcme>>])
    /\ ~talentGraph.isLoading

\* The graph a page shows has no dangling edge reference
ShowsNoDanglingGraph(graph) == IsGraphValue(graph) => WellFormed(GraphOf(graph))

NoDuplicates(store) ==
    /\ \A i, j \in 1..Len(store.nodes) : store.nodes[i] = store.nodes[j] => i = j
    /\ \A i, j \in 1..Len(store.edges) : store.edges[i] = store.edges[j] => i = j

\* C7: idempotent script: executing a script again against the store its first
\* execution (from the empty store) left leaves the store as it is, same nodes,
\* same edges and no duplicates; so for the default script.
C7_ScriptIdempotent ==
    [][ ExecuteGraphScript =>
            /\ NoDuplicates(neptune'.store)
            /\ neptune.runs >= 1 => neptune'.store = neptune.store
      ]_vars

\* The default script has been executed twice: 6 nodes and 5 edges
C7_Witness ==
    /\ neptune.script = openCypherQueryDefault.script
    /\ neptune.runs = 2
    /\ Len(neptune.store.nodes) = 6
    /\ Len(neptune.store.edges) = 5

DocIdOf(doc) == CHOOSE id \in DOMAIN retrieval.metadata : retrieval.metadata[id].doc_key = doc.doc_key

\* The result of the last search is the top of the ranking: descending score,
\* equal scores by ascending doc_id, scores and texts those of the index
RankingHolds ==
    LET docs == retrieval.result.docs
        q == Embed(retrieval.query)
        returned == {DocIdOf(docs[i]) : i \in 1..Len(docs)}
    IN  /\ \A i \in 1..Len(docs) :
              /\ \E e \in Range(retrieval.index) :
                    e.doc_id = DocIdOf(docs[i]) /\ docs[i].score = Score(e.vector, q)
              /\ docs[i].doc_text = retrieval.metadata[DocIdOf(docs[i])].doc_text
        /\ \A i, j \in 1..Len(docs) :
              i < j => \/ docs[i].score > docs[j].score
                       \/ docs[i].score = docs[j].score /\ DocIdOf(docs[i]) < DocIdOf(docs[j])
        /\ \A e \in Range(retrieval.index) :
              e.doc_id \notin returned =>
                 \A i \in 1..Len(docs) :
                    \/ docs[i].score > Score(e.vector, q)
                    \/ docs[i].score = Score(e.vector, q) /\ DocIdOf(docs[i]) < e.doc_id

C13_KAtLeastOne ==
    /\ retriever.k.t = "number" /\ retriever.k.n >= 1
    /\ \A i \in 1..Len(retriever.ragCalls) :
          retriever.ragCalls[i].k.t = "number" /\ retriever.ragCalls[i].k.n >= 1

\* C17: every ragQuery that is invoked completes with exactly one visible
\* outcome: when Get Answer has settled, whatever the response, exactly one of
\* ragResponse and ragError is non-empty.
C17_ExactlyOneOutcome ==
    [][ \A i \in 1..Len(retriever.ragCalls), resp \in RagResponses :
            GetAnswerSettle(i, resp) =>
                (retriever'.ragResponse # Str("")) # (retriever'.ragError # Str(""))
      ]_vars

\* The documents the page lists from retrievedDocs: none when it holds no mapping
DocsDisplayed(docs) == IF docs = Undefined THEN Obj(EmptyObj) ELSE docs

\* C18: no partial or stale result is shown as success: when Get Answer has
\* settled, the retrieved documents displayed are those of the response whose
\* answer is displayed, and none are displayed when the query failed.
C18_NoStaleDocuments ==
    [][ \A i \in 1..Len(retriever.ragCalls), resp \in RagResponses :
            GetAnswerSettle(i, resp) =>
                IF retriever'.ragError # Str("")
                THEN DocsDisplayed(retriever'.retrievedDocs) = Obj(EmptyObj)
                ELSE DocsDisplayed(retriever'.retrievedDocs) =
                        DocsDisplayed(Get(BodyOf(resp), "retrieved_docs"))
      ]_vars

\* C19: the script Execute submits is derived from the graph shown: in every
\* state of the graph page openCypherQuery is the default script while the
\* default graph is shown, or the script synthesized from the graph shown.
C19_ScriptOfShownGraph ==
    \/ /\ talentGraph.graph = JSONparse(graphDefault).v
       /\ talentGraph.openCypherQuery = openCypherQueryDefault
    \/ /\ IsGraphValue(talentGraph.graph)
       /\ talentGraph.openCypherQuery = SynthesizeQuery(JSONstringify(talentGraph.graph))

\* Every constraint precedes every data statement, and the nodes an edge
\* statement matches are merged by earlier statements
StatementsOrdered(script) ==
    /\ \A i, j \in 1..Len(script) :
          script[i].op = "constraint" /\ script[j].op # "constraint" => i < j
    /\ \A j \in 1..Len(script) :
          script[j].op \in {"matchMergeEdge", "matchCreateEdge"} =>
              /\ \E i \in 1..(j - 1) :
                    /\ script[i].op = "mergeNode"
                    /\ script[i].label = script[j].srcLabel
                    /\ script[i].key = script[j].srcKey
                    /\ script[i].value = script[j].srcValue
              /\ \E i \in 1..(j - 1) :
                    /\ script[i].op = "mergeNode"
                    /\ script[i].label = script[j].dstLabel
                    /\ script[i].key = script[j].dstKey
                    /\ script[i].value = script[j].dstValue

\* C20: statement ordering in the default script: every uniqueness constraint
\* precedes every data statement, every edge statement comes after the
\* create-if-absent statements of its source and of its target, and executed
\* in order against an empty store the script materializes all 5 edges, each
\* between the nodes its statement names.
C20_DefaultScriptOrdered ==
    neptune.script = openCypherQueryDefault.script =>
        /\ StatementsOrdered(neptune.script)
        /\ neptune.runs >= 1 =>
              /\ Len(neptune.store.edges) = 5
              /\ \A j \in 1..Len(neptune.script) :
                    neptune.script[j].op = "matchMergeEdge" =>
                        \E e \in Range(neptune.store.edges) :
                            /\ e.type = neptune.script[j].type
                            /\ Matches(neptune.store.nodes[e.src], neptune.script[j].srcLabel,
                                       neptune.script[j].srcKey, neptune.script[j].srcValue)
                            /\ Matches(neptune.store.nodes[e.dst], neptune.script[j].dstLabel,
                                       neptune.script[j].dstKey, neptune.script[j].dstValue)

\* The default script has been executed once: 6 nodes, and its 5 edges
C20_Witness ==
    /\ neptune.script = openCypherQueryDefault.script
    /\ neptune.runs = 1
    /\ Len(neptune.store.nodes) = 6
    /\ Len(neptune.store.edges) = 5
    /\ \E e \in Range(neptune.store.edges) : e.type = "FOUNDED"

\* One more call in flight than before: the calls before, then one new call
IssuedOne(before, after) ==
    Len(after) = Len(before) + 1 /\ SubSeq(after, 1, Len(before)) = before

\* C14: no automatic retry.  A backend call is added to the calls in flight
\* only by the step of a user action (Create FAISS Index, Get Answer, Generate
\* Graph, Generate OpenCypher Query, Execute OpenCypher Query, Converse), and
\* that step adds exactly one; the step in which a call settles, whatever it
\* settles with, takes that call out of the calls in flight and adds none.
C14_NoAutomaticRetry ==
    [][ /\ Len(retriever'.faissCalls) > Len(retriever.faissCalls)
            => ClickCreateFaissIndex /\ IssuedOne(retriever.faissCalls, retriever'.faissCalls)
        /\ Len(retriever'.ragCalls) > Len(retriever.ragCalls)
            => ClickGetAnswer /\ IssuedOne(retriever.ragCalls, retriever'.ragCalls)
        /\ Len(talentGraph'.calls) > Len(talentGraph.calls)
            => /\ ClickGenerateGraph \/ ClickGenerateQuery \/ ClickExecuteQuery
               /\ IssuedOne(talentGraph.calls, talentGraph'.calls)
        /\ Len(promptSelector'.converseCalls) > Len(promptSelector.converseCalls)
            => ClickConverse /\ IssuedOne(promptSelector.converseCalls, promptSelector'.converseCalls)
        /\ \A i \in 1..Len(retriever.faissCalls), resp \in FaissResponses :
            CreateFaissIndexSettle(i, resp)
            => Len(retriever'.faissCalls) = Len(retriever.faissCalls) - 1
        /\ \A i \in 1..Len(retriever.ragCalls), resp \in RagResponses :
            GetAnswerSettle(i, resp)
            => Len(retriever'.ragCalls) = Len(retriever.ragCalls) - 1
        /\ \A i \in 1..Len(talentGraph.calls) :
            \A resp \in TalentGraphResponses(talentGraph.calls[i]) :
                TalentGraphSettle(i, resp)
                => Len(talentGraph'.calls) = Len(talentGraph.calls) - 1
        /\ \A i \in 1..Len(promptSelector.converseCalls), resp \in ConverseResponses :
            ConverseSettle(i, resp)
            => Len(promptSelector'.converseCalls) = Len(promptSelector.converseCalls) - 1
      ]_vars

\* A Converse call has failed and no call is in flight: the user's message is
\* in the conversation and nothing was issued again
C14_Witness ==
    /\ promptSelector.error = Str("Failed to get response from AI")
    /\ promptSelector.converseCalls = <<>>
    /\ promptSelector.messages = <<Message("user", "hi")>>

\* C15: the user interface issues one call at a time: on the graph page, on the
\* knowledge-base page (Create and Delete) and in the chat of the prompt page
\* (Converse), at most one backend call started from the page's buttons is in
\* flight.
C15_OneCallAtATime ==
    /\ Len(talentGraph.calls) <= 1
    /\ Len(knowledgeBase.calls) <= 1
    /\ Len(promptSelector.converseCalls) <= 1

\* C16: every started invocation completes.  An in-progress flag
\* (isCreatingFaissIndex, isProcessingRag, the graph page's isLoading, the
\* prompt page's loading) is set only while a call of its handler is in flight,
\* and the step in which that call returns or throws, whatever the response
\* (success, non-200 envelope, missing body, backend errors, rejection), leaves
\* the flag false.
C16_FlagResetOnReturn ==
    [][ /\ retriever'.isCreatingFaissIndex => retriever'.faissCalls # <<>>
        /\ retriever'.isProcessingRag => retriever'.ragCalls # <<>>
        /\ talentGraph'.isLoading => talentGraph'.calls # <<>>
        /\ promptSelector'.loading => promptSelector'.calls # <<>>
        /\ \A i \in 1..Len(retriever.faissCalls), resp \in FaissResponses :
            CreateFaissIndexSettle(i, resp) => ~retriever'.isCreatingFaissIndex
        /\ \A i \in 1..Len(retriever.ragCalls), resp \in RagResponses :
            GetAnswerSettle(i, resp) => ~retriever'.isProcessingRag
        /\ \A i \in 1..Len(talentGraph.calls) :
            \A resp \in TalentGraphResponses(talentGraph.calls[i]) :
                TalentGraphSettle(i, resp) => ~talentGraph'.isLoading
        /\ \A i \in 1..Len(promptSelector.calls) :
            \A resp \in SystemPromptsResponses(promptSelector.calls[i], promptSelector) :
                SystemPromptsSettle(i, resp) => ~promptSelector'.loading
      ]_vars

\* createSystemPrompt was rejected: the error is shown, the create form is still
\* open with its fields, and loading is false again
C16_Witness ==
    /\ promptSelector.error = NetworkError
    /\ promptSelector.isCreatingNewPrompt
    /\ promptSelector.newPromptName = "p1"
    /\ promptSelector.calls = <<>>
    /\ ~promptSelector.loading

\* s is a prefix of t
IsPrefix(s, t) == Len(s) <= Len(t) /\ SubSeq(t, 1, Len(s)) = s

\* The messages a converse call was sent, and the first of the messages a
\* response carries
SentMessages(call) == JSONparse(call.Messages).v.a
HasReply(resp) ==
    HasBody(resp) /\ Get(BodyOf(resp), "messages") # Undefined
        /\ Len(Get(BodyOf(resp), "messages").a) > 0
ReplyOf(resp) == Get(BodyOf(resp), "messages").a[1]

\* C21: between two Clear actions the conversation is append-only.  A step
\* other than Clear keeps the earlier messages in their places; Converse sends
\* the whole conversation followed by the new user message; and when a call
\* started since the last Clear settles with a reply, the conversation is then
\* the messages that call sent followed by exactly that reply.
C21_AppendOnlyConversation ==
    [][ /\ ~ClearConversation => IsPrefix(promptSelector.messages, promptSelector'.messages)
        /\ ClickConverse =>
            LET call == promptSelector'.converseCalls[Len(promptSelector'.converseCalls)]
            IN  /\ SentMessages(call) =
                        Append(promptSelector.messages, Message("user", promptSelector.userMessage))
                /\ promptSelector'.messages = SentMessages(call)
        /\ \A i \in 1..Len(promptSelector.converseCalls), resp \in ConverseResponses :
            /\ ConverseSettle(i, resp)
            /\ HasReply(resp)
            /\ ~promptSelector.converseCalls[i].detached
            => promptSelector'.messages =
                    Append(SentMessages(promptSelector.converseCalls[i]), ReplyOf(resp))
      ]_vars

\* The roles go user, assistant, ..., user
Alternates(msgs) ==
    /\ Len(msgs) % 2 = 1
    /\ \A n \in 1..Len(msgs) :
        Get(msgs[n], "role") = (IF n % 2 = 1 THEN Str("user") ELSE Str("assistant"))

\* C22: the message list sent to converseSystemPrompt strictly alternates
\* user, assistant, ..., user.  Stated for Converse actions that follow one
\* another: the messages sent by a Converse that starts while no call is in
\* flight start and end with a user message, and no two neighbours have the
\* same role.
C22_RolesAlternate ==
    [][ ClickConverse /\ promptSelector.converseCalls = <<>>
            => Alternates(SentMessages(promptSelector'.converseCalls[1]))
      ]_vars

\* C23: a late reply is not added to the new conversation.  Clear leaves an
\* empty conversation and detaches every call in flight from it; the step in
\* which a call started before the last Clear settles, whatever its response,
\* leaves the conversation as it was; and a call started after the Clear is
\* attached to the conversation that holds its messages.
C23_LateReplyNotAdded ==
    [][ /\ ClearConversation =>
            /\ promptSelector'.messages = <<>>
            /\ \A i \in 1..Len(promptSelector'.converseCalls) :
                    promptSelector'.converseCalls[i].detached
        /\ \A i \in 1..Len(promptSelector.converseCalls), resp \in ConverseResponses :
            ConverseSettle(i, resp) /\ promptSelector.converseCalls[i].detached
            => promptSelector'.messages = promptSelector.messages
        /\ ClickConverse =>
            LET call == promptSelector'.converseCalls[Len(promptSelector'.converseCalls)]
            IN  ~call.detached /\ promptSelector'.messages = SentMessages(call)
      ]_vars

\* Clear was pressed while a call was in flight, and a new conversation has
\* begun while that call is still waiting for its reply
C23_Witness ==
    /\ Len(promptSelector.converseCalls) = 2
    /\ promptSelector.converseCalls[1].detached
    /\ ~promptSelector.converseCalls[2].detached
    /\ promptSelector.messages = <<Message("user", "hi")>>

\* A text that is empty or holds only whitespace
Blank(text) == text \in {"", " ", "  "}

\* C24: blank-input guards.  No call in flight of ragFaissIndex carries a blank
\* query, of convertTextToNodeRelationJson a blank text, of
\* executeOpenCypherQueryForNeptune a blank script or endpoint, of
\* systemPrompts.create a blank name or system prompt; and a click that is
\* rejected for a blank input sets the validation error and leaves the calls in
\* flight, the in-progress flag and the result state as they were.
C24_BlankInputGuards ==
    [][ /\ \A i \in 1..Len(retriever'.ragCalls) : ~Blank(retriever'.ragCalls[i].query)
        /\ \A i \in 1..Len(talentGraph'.calls) :
            LET call == talentGraph'.calls[i]
            IN  /\ call.op = "convertTextToNodeRelationJson" => ~Blank(call.text)
                /\ call.op = "executeOpenCypherQueryForNeptune" =>
                        /\ ~Blank(call.neptuneEndpoint)
                        /\ "s" \in DOMAIN call.openCypherQuery => ~Blank(call.openCypherQuery.s)
        /\ \A i \in 1..Len(promptSelector'.calls) :
            LET call == promptSelector'.calls[i]
            IN  call.op = "create" => ~Blank(call.name) /\ ~Blank(call.systemPrompt)
        /\ ClickGetAnswer /\ Blank(retriever.query) =>
            /\ retriever'.ragError = Str("Query cannot be empty.")
            /\ retriever' = [retriever EXCEPT !.ragError = retriever'.ragError]
        /\ ClickGenerateGraph /\ Blank(talentGraph.graphDescription) =>
            /\ talentGraph'.error = Str("Please enter a graph description")
            /\ talentGraph' = [talentGraph EXCEPT !.error = talentGraph'.error]
        /\ /\ ClickExecuteQuery
           /\ \/ Blank(talentGraph.neptuneEndpoint)
              \/ "s" \in DOMAIN talentGraph.openCypherQuery /\ Blank(talentGraph.openCypherQuery.s)
           => /\ talentGraph'.error = Str("Please enter an OpenCypher query and Neptune endpoint")
              /\ talentGraph' = [talentGraph EXCEPT !.error = talentGraph'.error]
        /\ /\ ClickRegister
           /\ Blank(promptSelector.newPromptName) \/ Blank(promptSelector.newPromptSystemPrompt)
           => /\ promptSelector'.error = Str("Name and system prompt are required")
              /\ promptSelector' = [promptSelector EXCEPT
                        !.error = promptSelector'.error,
                        !.bannerTimers = promptSelector'.bannerTimers]
      ]_vars

\* Register was clicked with a whitespace-only name: the validation error is
\* shown, the form is open and no call is in flight
C24_Witness ==
    /\ promptSelector.error = Str("Name and system prompt are required")
    /\ promptSelector.isCreatingNewPrompt
    /\ promptSelector.newPromptName = " "
    /\ promptSelector.newPromptSystemPrompt = "p1"
    /\ promptSelector.calls = <<>>
    /\ ~promptSelector.loading

\* The backend answered a systemPrompts call with errors, or the call threw
ModelFailed(resp) == resp.threw \/ (resp.errors # Undefined /\ Len(resp.errors.a) > 0)

\* C25: createSystemPrompt changes the prompt list only on success.  When the
\* create call settles with a record, the list is the list before followed by
\* that record, the success banner is set and the create form is closed; when
\* it settles with errors or throws, the list and the form's open state are as
\* before and the error banner is set.
C25_CreateOnlyOnSuccess ==
    [][ \A i \in 1..Len(promptSelector.calls) :
            \A resp \in SystemPromptsResponses(promptSelector.calls[i], promptSelector) :
                SystemPromptsSettle(i, resp) /\ promptSelector.calls[i].op = "create"
                => IF ModelFailed(resp)
                   THEN /\ promptSelector'.systemPrompts = promptSelector.systemPrompts
                        /\ promptSelector'.isCreatingNewPrompt = promptSelector.isCreatingNewPrompt
                        /\ ~Falsy(promptSelector'.error)
                   ELSE /\ promptSelector'.systemPrompts =
                                promptSelector.systemPrompts \o <<resp.data>>
                        /\ promptSelector'.success = Str("Prompt created successfully")
                        /\ ~promptSelector'.isCreatingNewPrompt
      ]_vars

\* A prompt was created after the one the list call returned
C25_Witness ==
    /\ promptSelector.systemPrompts = <<PromptData("1", "n1", "p1"), PromptData("2", "p1", "p1")>>
    /\ promptSelector.success = Str("Prompt created successfully")
    /\ ~promptSelector.isCreatingNewPrompt
    /\ promptSelector.calls = <<>>

\* C26: deleteSystemPrompt removes exactly the selected prompt.  When the
\* delete call settles without errors, the list is the list before without the
\* entries whose id is promptId, the others in their order, and deletingPromptId
\* is empty; when it settles with errors or throws, the list is as before; and
\* no delete call in flight carries an empty id.
C26_DeleteExactlySelected ==
    [][ /\ \A i \in 1..Len(promptSelector'.calls) :
            promptSelector'.calls[i].op = "delete" => promptSelector'.calls[i].id # ""
        /\ \A i \in 1..Len(promptSelector.calls) :
            \A resp \in SystemPromptsResponses(promptSelector.calls[i], promptSelector) :
                SystemPromptsSettle(i, resp) /\ promptSelector.calls[i].op = "delete"
                => IF ModelFailed(resp)
                   THEN promptSelector'.systemPrompts = promptSelector.systemPrompts
                   ELSE /\ promptSelector'.systemPrompts =
                                SelectSeq(promptSelector.systemPrompts,
                                          LAMBDA prompt :
                                            Get(prompt, "id") # Str(promptSelector.calls[i].id))
                        /\ promptSelector'.deletingPromptId = ""
      ]_vars

\* One of two prompts was deleted and the other, created second, is kept
C26_Witness ==
    /\ promptSelector.systemPrompts = <<PromptData("2", "p1", "p1")>>
    /\ promptSelector.success = Str("Prompt deleted successfully")
    /\ promptSelector.deletingPromptId = ""
    /\ ~promptSelector.isDeletingPrompt
    /\ promptSelector.calls = <<>>

\* C27: the system prompt sent with a converse request belongs to a stored
\* prompt: selectedPrompt is empty or is the systemPrompt text of an entry of
\* systemPrompts.
C27_SelectedPromptStored ==
    \/ promptSelector.selectedPrompt = ""
    \/ \E n \in 1..Len(promptSelector.systemPrompts) :
        Get(promptSelector.systemPrompts[n], "systemPrompt") = Str(promptSelector.selectedPrompt)

\* A banner of the prompt page is shown
BannerShown(cur) == ~Falsy(cur.error) \/ ~Falsy(cur.success)

\* C28: banners are transient.  While a banner is shown exactly one timer is
\* pending, the one started for the error and success now held (every change of
\* either cancels the timer before and starts a new one, so no stale timer is
\* left to fire), and no timer is pending when none is shown; the step of a
\* timer firing leaves error and success null; and a banner that is shown leads
\* to a state where both are null.
C28_BannersTransient ==
    /\ [][ /\ promptSelector'.bannerTimers =
                IF BannerShown(promptSelector')
                THEN {<<promptSelector'.error, promptSelector'.success>>}
                ELSE {}
           /\ BannerTimeout =>
                promptSelector'.error = Null /\ promptSelector'.success = Null
         ]_vars
    /\ BannerShown(promptSelector)
            ~> (promptSelector.error = Null /\ promptSelector.success = Null)

\* The success banner of a create is shown next to a validation error set after
\* it: the one pending timer is the one started when the error was set
C28_Witness ==
    /\ promptSelector.success = Str("Prompt created successfully")
    /\ promptSelector.error = Str("Name and system prompt are required")
    /\ promptSelector.bannerTimers = {<<promptSelector.error, promptSelector.success>>}

====
